---- MODULE Spec2Model ----
(***************************************************************************)
(* CBSE board-exams record keeping: the authentication gateway, the role   *)
(* check, registration/login/logout, the role-gated write routes and the   *)
(* invigilation-assignment validation of the Express server, as a state    *)
(* machine over the relational tables, the session store and the clock.    *)
(***************************************************************************)
EXTENDS Integers, Sequences, FiniteSets, TLC

VARIABLES
    now,          \* Date.now(), milliseconds
    users,        \* table users
    schools,      \* table schools
    subjects,     \* table subjects
    examiners,    \* table examiners
    students,     \* table students
    answerSheets, \* table answer_sheets
    assignments,  \* table invigilation_assignments
    serial,       \* the SERIAL sequences of the tables
    roleCheck,    \* whether users.role carries the CHECK constraint
    sessions,     \* express-session store: session id -> Session Record
    nextSid,      \* number of session ids generated so far
    issued,       \* history: the tokens login has returned, with their login
    last,         \* the request handled last and its response
    regs,         \* history: the registrations answered 201
    reg,          \* the in-flight registration handlers (interleaved runs)
    probe,        \* input and result of a pure helper under test
    boot,         \* the app.listen callback: its position and the process's fate
    client        \* the dashboard: React state of AuthProvider and localStorage

dbVars == <<users, schools, subjects, examiners, students, answerSheets, assignments, serial,
           roleCheck>>
vars == <<now, users, schools, subjects, examiners, students, answerSheets, assignments,
          serial, roleCheck, sessions, nextSid, issued, last, regs, reg, probe, boot, client>>

----------------------------------------------------------------------------
(* Values *)

\* an absent / null numeric reference (JS undefined or null, SQL NULL)
NoId == 0
\* an absent string field (JS undefined, null or '')
NoStr == ""
\* a timestamp column that is NULL
NoTime == 0 - 1

Roles == {"admin", "coordinator", "examiner"}

----------------------------------------------------------------------------
(* isValidDate: strings are sequences of one-character strings *)

Digits == <<"0", "1", "2", "3", "4", "5", "6", "7", "8", "9">>

IsDigit(c) == \E i \in 1..10 : Digits[i] = c

DigitVal(c) == (CHOOSE i \in 1..10 : Digits[i] = c) - 1

\* /^\d{4}-\d{2}-\d{2}$/.test(dateString)
DateRegexTest(s) ==
    /\ Len(s) = 10
    /\ \A i \in {1, 2, 3, 4, 6, 7, 9, 10} : IsDigit(s[i])
    /\ s[5] = "-"
    /\ s[8] = "-"

IsLeapYear(y) == (y % 4 = 0 /\ y % 100 # 0) \/ y % 400 = 0

DaysInMonth(y, m) ==
    IF m = 2 THEN (IF IsLeapYear(y) THEN 29 ELSE 28)
    ELSE IF m \in {4, 6, 9, 11} THEN 30 ELSE 31

RECURSIVE DaysBeforeMonth(_, _)
DaysBeforeMonth(y, m) == IF m = 1 THEN 0 ELSE DaysBeforeMonth(y, m - 1) + DaysInMonth(y, m - 1)

\* days from 0000-01-01 to the first day of year y
DaysBeforeYear(y) == 365 * y + ((y + 3) \div 4) - ((y + 99) \div 100) + ((y + 399) \div 400)

\* ECMAScript MakeDay: a day past the end of the month rolls into the next one
MakeDay(y, m, d) == DaysBeforeYear(y) + DaysBeforeMonth(y, m) + (d - 1)

YearFromDay(n) ==
    CHOOSE y \in (n \div 366)..(n \div 365) : DaysBeforeYear(y) <= n /\ n < DaysBeforeYear(y + 1)

MonthFromDay(n) ==
    LET y == YearFromDay(n)
        doy == n - DaysBeforeYear(y)
    IN CHOOSE m \in 1..12 : DaysBeforeMonth(y, m) <= doy /\ doy < DaysBeforeMonth(y, m) + DaysInMonth(y, m)

DateFromDay(n) ==
    LET y == YearFromDay(n)
        m == MonthFromDay(n)
    IN n - DaysBeforeYear(y) - DaysBeforeMonth(y, m) + 1

Pad2(n) == <<Digits[((n \div 10) % 10) + 1], Digits[(n % 10) + 1]>>

Pad4(n) == <<Digits[((n \div 1000) % 10) + 1], Digits[((n \div 100) % 10) + 1]>> \o Pad2(n % 100)

\* the string YYYY-MM-DD of three numbers
DateStr(y, m, d) == Pad4(y) \o <<"-">> \o Pad2(m) \o <<"-">> \o Pad2(d)

Num2(s, i) == 10 * DigitVal(s[i]) + DigitVal(s[i + 1])

Num4(s, i) == 100 * Num2(s, i) + Num2(s, i + 2)

InvalidDate == 0 - 1

\* new Date(dateString) for a date-only ISO string, as a day number (time value / 86400000).
\* The month must be 1..12.  A conforming engine rejects a day past the end of the
\* month; V8 (Node) accepts any day 1..31 and lets MakeDay roll it over.  lenient
\* selects the engine.
NewDate(s, lenient) ==
    LET y == Num4(s, 1)
        m == Num2(s, 6)
        d == Num2(s, 9)
    IN IF m < 1 \/ m > 12 \/ d < 1 \/ d > 31 THEN InvalidDate
       ELSE IF ~lenient /\ d > DaysInMonth(y, m) THEN InvalidDate
       ELSE MakeDay(y, m, d)

\* Date.prototype.toISOString of a midnight-UTC time value
ToISOString(n) ==
    Pad4(YearFromDay(n)) \o <<"-">> \o Pad2(MonthFromDay(n)) \o <<"-">> \o Pad2(DateFromDay(n))
        \o <<"T", "0", "0", ":", "0", "0", ":", "0", "0", ".", "0", "0", "0", "Z">>

StartsWith(s, prefix) == Len(prefix) <= Len(s) /\ SubSeq(s, 1, Len(prefix)) = prefix

isValidDateDropsRoundTrip(dateString, lenient) ==
    IF ~DateRegexTest(dateString) THEN FALSE
    ELSE NewDate(dateString, lenient) # InvalidDate

isValidDate(dateString, lenient) ==
    IF ~DateRegexTest(dateString) THEN FALSE
    ELSE LET date == NewDate(dateString, lenient)
         IN date # InvalidDate /\ StartsWith(ToISOString(date), dateString)

----------------------------------------------------------------------------
(* Requests, responses and the middleware *)

\* req.user before authenticateToken has set it (undefined)
NoUser == [present |-> FALSE, userId |-> NoId, username |-> NoStr, role |-> NoStr,
           examinerId |-> NoId, schoolId |-> NoId]

\* what a middleware does: calls next(), answers, or throws
MwNext == [kind |-> "next", status |-> 0, error |-> NoStr]
MwAnswer(status, error) == [kind |-> "answer", status |-> status, error |-> error]
MwThrow == [kind |-> "throw", status |-> 0, error |-> "TypeError"]

\* Array.prototype.includes
Includes(arr, x) == \E i \in 1..Len(arr) : arr[i] = x

authorizeRoleAdminPassesAll(roles, user) ==
    IF ~user.present THEN MwThrow
    ELSE IF ~(Includes(roles, user.role) \/ user.role = "admin")
         THEN MwAnswer(403, "Insufficient permissions")
         ELSE MwNext

\* authorizeRole(roles)(req, res, next); reading req.user.role of an undefined
\* req.user throws a TypeError
authorizeRole(roles, user) ==
    IF ~user.present THEN MwThrow
    ELSE IF ~Includes(roles, user.role)
         THEN MwAnswer(403, "Insufficient permissions")
         ELSE MwNext

----------------------------------------------------------------------------
(* Tokens *)

JWT_SECRET == "cbse-jwt-secret-key"

\* expiresIn: '24h', in seconds
TokenTTL == 86400

\* no Authorization header, or one without a second word
AbsentCred == [form |-> "absent", sig |-> NoStr, userId |-> NoId, username |-> NoStr,
               role |-> NoStr, examinerId |-> NoId, schoolId |-> NoId, iat |-> 0, exp |-> 0]

\* a bearer string that is no JWT
MalformedCred == [AbsentCred EXCEPT !.form = "malformed"]

\* the listen callback has returned: tables, views, sample data and admin are in place
Booted == [pc |-> "ready", attempt |-> 1, alive |-> TRUE, error |-> NoStr,
           log |-> <<"ok">>, relations |-> TRUE]

\* the dashboard before it is opened: no token in localStorage, no user
NoClient == [token |-> AbsentCred, stored |-> AbsentCred, user |-> NoUser, error |-> NoStr,
             pending |-> [op |-> NoStr, cred |-> AbsentCred, body |-> << >>],
             did |-> [op |-> NoStr, status |-> 0, error |-> NoStr]]

\* jwt.sign(payload, secret, { expiresIn: '24h' }) at clock time ms
JwtSign(user, secret, ms) ==
    [form |-> "jwt", sig |-> secret, userId |-> user.user_id, username |-> user.username,
     role |-> user.role, examinerId |-> user.examiner_id, schoolId |-> user.school_id,
     iat |-> ms \div 1000, exp |-> (ms \div 1000) + TokenTTL]

\* jwt.verify(token, secret): the error, or NoStr
JwtVerifyError(tok, secret, ms) ==
    IF tok.form # "jwt" THEN "JsonWebTokenError: jwt malformed"
    ELSE IF tok.sig # secret THEN "JsonWebTokenError: invalid signature"
    ELSE IF (ms \div 1000) >= tok.exp THEN "TokenExpiredError"
    ELSE NoStr

\* the decoded payload handed to the callback as req.user
Claims(tok) ==
    [present |-> TRUE, userId |-> tok.userId, username |-> tok.username, role |-> tok.role,
     examinerId |-> tok.examinerId, schoolId |-> tok.schoolId]

authenticateTokenNeedsSession(cred) ==
    IF cred.form = "absent" THEN MwAnswer(401, "Access token required")
    ELSE IF JwtVerifyError(cred, JWT_SECRET, now) # NoStr
         THEN MwAnswer(403, "Invalid or expired token")
    ELSE IF ~\E sid \in DOMAIN sessions : sessions[sid].userId = cred.userId
         THEN MwAnswer(403, "Invalid or expired token")
    ELSE MwNext

authenticateTokenIgnoresExpiry(cred) ==
    IF cred.form = "absent" THEN MwAnswer(401, "Access token required")
    ELSE IF JwtVerifyError(cred, JWT_SECRET, 0) # NoStr
         THEN MwAnswer(403, "Invalid or expired token")
         ELSE MwNext

\* authenticateToken(req, res, next)
authenticateToken(cred) ==
    IF cred.form = "absent" THEN MwAnswer(401, "Access token required")
    ELSE IF JwtVerifyError(cred, JWT_SECRET, now) # NoStr
         THEN MwAnswer(403, "Invalid or expired token")
         ELSE MwNext

\* the request body fields that are strings, and those that are character sequences;
\* the others are numbers
StringFields == {"school_name", "location", "examinerName", "studentRollNumber",
                 "studentName", "examSession", "username", "email", "role",
                 "answerBookId", "subject_name", "subject_code"}
SeqFields == {"examDate", "password"}

\* !req.body[field]
Falsy(body, field) ==
    IF field \in StringFields THEN body[field] = NoStr
    ELSE IF field \in SeqFields THEN body[field] = <<>>
    ELSE body[field] = NoId

\* validateRequest(requiredFields)(req, res, next)
validateRequest(requiredFields, body) ==
    IF \E i \in 1..Len(requiredFields) : Falsy(body, requiredFields[i])
    THEN MwAnswer(400, "Missing required fields")
    ELSE MwNext

\* The middleware of a route in the order app.METHOD lists them.  A throw goes to the
\* error-handling middleware, which answers 500.
RECURSIVE RunChain(_, _, _, _, _)
RunChain(chain, i, cred, body, user) ==
    IF i > Len(chain) THEN [kind |-> "next", status |-> 0, error |-> NoStr, user |-> user]
    ELSE LET mw == chain[i]
             r == IF mw.name = "authenticateToken" THEN authenticateToken(cred)
                  ELSE IF mw.name = "authorizeRole" THEN authorizeRole(mw.arg, user)
                  ELSE validateRequest(mw.arg, body)
             user2 == IF mw.name = "authenticateToken" /\ r.kind = "next" THEN Claims(cred) ELSE user
         IN IF r.kind = "next" THEN RunChain(chain, i + 1, cred, body, user2)
            ELSE IF r.kind = "throw"
                 THEN [kind |-> "answer", status |-> 500, error |-> "Internal server error", user |-> user]
                 ELSE [kind |-> "answer", status |-> r.status, error |-> r.error, user |-> user]

Mw(name, arg) == [name |-> name, arg |-> arg]
AdminCoordinator == <<"admin", "coordinator">>

----------------------------------------------------------------------------
(* The tables *)

\* bcrypt.hash(password, 10) and bcrypt.compare(password, hash): the one-way hash is
\* opaque; compare succeeds exactly on the hash of the same password
BcryptHash(password) == <<"$2a$10$", password>>
\* bcrypt.compare with its result taken as true whatever it is
BcryptCompareAnyPassword(password, hash) == TRUE

BcryptCompare(password, hash) == hash = BcryptHash(password)

Secret1 == <<"s", "e", "c", "r", "e", "t", "1">>
Admin123 == <<"a", "d", "m", "i", "n", "1", "2", "3">>
Wrong99 == <<"w", "r", "o", "n", "g", "9", "9">>
Abcde == <<"a", "b", "c", "d", "e">>

\* a date column value
D(y, m, d) == DateStr(y, m, d)

SampleSchools ==
    { [school_id |-> 1, school_name |-> "Delhi Public School", location |-> "New Delhi"],
      [school_id |-> 2, school_name |-> "Kendriya Vidyalaya", location |-> "Mumbai"],
      [school_id |-> 3, school_name |-> "St. Xavier School", location |-> "Kolkata"] }

SampleSubjects ==
    { [subject_id |-> 1, subject_code |-> "MATH001"],
      [subject_id |-> 2, subject_code |-> "PHY001"],
      [subject_id |-> 3, subject_code |-> "CHEM001"],
      [subject_id |-> 4, subject_code |-> "BIO001"],
      [subject_id |-> 5, subject_code |-> "ENG001"] }

SampleExaminers ==
    { [examiner_id |-> 1, examiner_name |-> "Dr. Rajesh Kumar", school_id |-> 1, subject_id |-> 1],
      [examiner_id |-> 2, examiner_name |-> "Mrs. Priya Sharma", school_id |-> 2, subject_id |-> 2],
      [examiner_id |-> 3, examiner_name |-> "Dr. Amit Singh", school_id |-> 3, subject_id |-> 3] }

SampleStudents ==
    { [student_roll_number |-> "2024001001", student_name |-> "Amit Patel", school_id |-> 1],
      [student_roll_number |-> "2024001002", student_name |-> "Sneha", school_id |-> 2] }

SampleAnswerSheets ==
    { [answer_book_id |-> "AB2024001", student_roll_number |-> "2024001001",
       subject_id |-> 1, examiner_id |-> 1, marks_assigned |-> 45],
      [answer_book_id |-> "AB2024002", student_roll_number |-> "2024001002",
       subject_id |-> 2, examiner_id |-> 2, marks_assigned |-> 48] }

SampleAssignments ==
    { [assignment_id |-> 1, examiner_id |-> 1, school_id |-> 1, exam_date |-> D(2025, 6, 1),
       exam_session |-> "Morning", subject_id |-> 1],
      [assignment_id |-> 2, examiner_id |-> 2, school_id |-> 2, exam_date |-> D(2025, 6, 1),
       exam_session |-> "Afternoon", subject_id |-> 2],
      [assignment_id |-> 3, examiner_id |-> 3, school_id |-> 3, exam_date |-> D(2025, 6, 2),
       exam_session |-> "Morning", subject_id |-> 3] }

\* the row initializeDatabase provisions
AdminUser ==
    [user_id |-> 1, username |-> "admin", email |-> "admin@cbse.edu.in",
     password_hash |-> BcryptHash(Admin123), role |-> "admin", examiner_id |-> NoId,
     school_id |-> NoId, is_active |-> TRUE, last_login |-> NoTime]

\* SQLSTATE of a failed statement; NoStr when it succeeds
UniqueViolation == "23505"
ForeignKeyViolation == "23503"
CheckViolation == "23514"

SchoolExists(id) == \E r \in schools : r.school_id = id
SubjectExists(id) == \E r \in subjects : r.subject_id = id
ExaminerExists(id) == \E r \in examiners : r.examiner_id = id
StudentExists(roll) == \E r \in students : r.student_roll_number = roll

InsertUserErrorNoUnique(row) ==
    IF roleCheck /\ row.role \notin Roles THEN CheckViolation
    ELSE IF row.examiner_id # NoId /\ row.examiner_id # row.new_examiner
            /\ ~ExaminerExists(row.examiner_id) THEN ForeignKeyViolation
    ELSE IF row.school_id # NoId /\ ~SchoolExists(row.school_id) THEN ForeignKeyViolation
    ELSE NoStr

\* INSERT INTO users: CHECK (role IN ...), the two UNIQUE columns, the two REFERENCES
InsertUserError(row) ==
    IF roleCheck /\ row.role \notin Roles THEN CheckViolation
    ELSE IF \E u \in users : u.username = row.username \/ u.email = row.email THEN UniqueViolation
    ELSE IF row.examiner_id # NoId /\ row.examiner_id # row.new_examiner
            /\ ~ExaminerExists(row.examiner_id) THEN ForeignKeyViolation
    ELSE IF row.school_id # NoId /\ ~SchoolExists(row.school_id) THEN ForeignKeyViolation
    ELSE NoStr

\* INSERT INTO examiners: the two REFERENCES
InsertExaminerError(row) ==
    IF row.school_id # NoId /\ ~SchoolExists(row.school_id) THEN ForeignKeyViolation
    ELSE IF row.subject_id # NoId /\ ~SubjectExists(row.subject_id) THEN ForeignKeyViolation
    ELSE NoStr

getUserByUsernameAnyActive(username) == { u \in users : u.username = username }

\* SELECT * FROM users WHERE username = $1 AND is_active = true
getUserByUsername(username) == { u \in users : u.username = username /\ u.is_active }

\* SELECT * FROM users WHERE email = $1 AND is_active = true
getUserByEmail(email) == { u \in users : u.email = email /\ u.is_active }

\* the state of the database and of the server when it starts to listen: the tables
\* and sample rows of the schema script, then initializeDatabase.  check tells
\* whether users was created by createUsersTable (with the CHECK on role) or by the
\* schema script that already holds a users table (without it); the latter script
\* also inserts three assignments.
Startup(check) ==
    /\ now = 0
    /\ users = {AdminUser}
    /\ schools = SampleSchools
    /\ subjects = SampleSubjects
    /\ examiners = SampleExaminers
    /\ students = SampleStudents
    /\ answerSheets = SampleAnswerSheets
    /\ assignments = IF check THEN {} ELSE SampleAssignments
    /\ serial = [users |-> 2, schools |-> 4, subjects |-> 6, examiners |-> 4,
                 assignments |-> IF check THEN 1 ELSE 4]
    /\ roleCheck = check
    /\ sessions = << >>
    /\ nextSid = 0
    /\ issued = {}
    /\ regs = {}
    /\ last = [op |-> "listen", status |-> 0, error |-> NoStr, ran |-> FALSE,
               changed |-> FALSE, cred |-> AbsentCred, token |-> AbsentCred,
               body |-> << >>, checks |-> << >>]

\* the response record of a request
Response(op, cred, body, status, error, ran, changed, token, checks) ==
    [op |-> op, status |-> status, error |-> error, ran |-> ran, changed |-> changed,
     cred |-> cred, token |-> token, body |-> body, checks |-> checks]

----------------------------------------------------------------------------
(* Registration, login, logout *)

MaxLogins == 2
MaxDays == 1

\* 24 hours in milliseconds
DayMs == TokenTTL * 1000

\* the instants the clock is observed at: around each second and each day boundary
ClockInstants ==
    { d * DayMs + ms : d \in 0..MaxDays, ms \in {0, 999, 1000} }
        \cup { d * DayMs - 1 : d \in 1..MaxDays }

\* the first two checks of the register handler: the error, or NoStr
RegValidation(body) ==
    IF body.username = NoStr \/ body.email = NoStr \/ body.password = << >>
    THEN "Username, email, and password are required"
    ELSE IF Len(body.password) < 6 THEN "Password must be at least 6 characters long"
    ELSE NoStr

\* role === 'examiner' && !examinerId
NeedsExaminer(body) == body.role = "examiner" /\ body.examinerId = NoId

\* the examiner row the register handler builds for addExaminer
NewExaminerRow(body) ==
    [examiner_id |-> serial.examiners, examiner_name |-> body.username,
     school_id |-> IF body.schoolId = NoId THEN 1 ELSE body.schoolId, subject_id |-> 1]

NewUserRowRoleAsGiven(body, finalExaminerId) ==
    [user_id |-> serial.users, username |-> body.username, email |-> body.email,
     password_hash |-> BcryptHash(body.password),
     role |-> body.role,
     examiner_id |-> finalExaminerId, school_id |-> body.schoolId, is_active |-> TRUE,
     last_login |-> NoTime]

\* the row createUser inserts: role || 'examiner'
NewUserRow(body, finalExaminerId) ==
    [user_id |-> serial.users, username |-> body.username, email |-> body.email,
     password_hash |-> BcryptHash(body.password),
     role |-> IF body.role = NoStr THEN "examiner" ELSE body.role,
     examiner_id |-> finalExaminerId, school_id |-> body.schoolId, is_active |-> TRUE,
     last_login |-> NoTime]

Bump(table) == [serial EXCEPT ![table] = @ + 1]

NoChecks == << >>

\* POST /api/auth/register, run without another request in between
Register(body) ==
    /\ UNCHANGED <<now, schools, subjects, students, answerSheets, assignments, roleCheck,
                   sessions, nextSid, issued, reg, probe, boot, client>>
    /\ LET v == RegValidation(body)
           needEx == NeedsExaminer(body)
           exRow == NewExaminerRow(body)
           exErr == IF needEx THEN InsertExaminerError(exRow) ELSE NoStr
           finalExaminerId == IF needEx THEN exRow.examiner_id ELSE body.examinerId
           uRow == NewUserRow(body, finalExaminerId)
           uErr == InsertUserError(uRow @@
                                   [new_examiner |-> IF needEx THEN exRow.examiner_id ELSE NoId])
           Reply(status, error, changed) ==
               last' = Response("register", AbsentCred, body, status, error, TRUE, changed,
                                AbsentCred, NoChecks)
       IN IF v # NoStr
          THEN Reply(400, v, FALSE) /\ UNCHANGED <<users, examiners, serial, regs>>
          ELSE IF getUserByUsername(body.username) # {}
          THEN Reply(400, "Username already exists", FALSE)
               /\ UNCHANGED <<users, examiners, serial, regs>>
          ELSE IF getUserByEmail(body.email) # {}
          THEN Reply(400, "Email already registered", FALSE)
               /\ UNCHANGED <<users, examiners, serial, regs>>
          ELSE IF exErr # NoStr
          THEN Reply(500, "Registration failed", FALSE)
               /\ UNCHANGED <<users, examiners, serial, regs>>
          ELSE IF uErr # NoStr
          THEN /\ Reply(500, "Registration failed", needEx)
               /\ examiners' = IF needEx THEN examiners \cup {exRow} ELSE examiners
               /\ serial' = IF needEx THEN Bump("examiners") ELSE serial
               /\ UNCHANGED <<users, regs>>
          ELSE /\ Reply(201, NoStr, TRUE)
               /\ examiners' = IF needEx THEN examiners \cup {exRow} ELSE examiners
               /\ users' = users \cup {uRow}
               /\ serial' = [serial EXCEPT !.users = @ + 1,
                                           !.examiners = IF needEx THEN @ + 1 ELSE @]
               /\ regs' = regs \cup {body}

\* the Session Record the login handler writes into req.session
SessionRecord(user) == [userId |-> user.user_id, username |-> user.username, role |-> user.role]

\* the id of req.session: the stored session the cookie names, else a fresh one
SessionId(cookie) == IF cookie \in DOMAIN sessions THEN cookie ELSE nextSid + 1

LoginSkipsLastLogin(body, cookie) ==
    /\ Cardinality(issued) < MaxLogins
    /\ UNCHANGED <<now, schools, subjects, examiners, students, answerSheets, assignments,
                   serial, roleCheck, regs, reg, probe, boot, client>>
    /\ LET found == getUserByUsername(body.username)
           user == CHOOSE u \in found : TRUE
           token == JwtSign(user, JWT_SECRET, now)
           sid == SessionId(cookie)
           Reject(status, error) ==
               /\ last' = Response("login", AbsentCred, body, status, error, TRUE, FALSE,
                                   AbsentCred, NoChecks)
               /\ UNCHANGED <<users, sessions, nextSid, issued>>
       IN IF body.username = NoStr \/ body.password = << >>
          THEN Reject(400, "Username and password are required")
          ELSE IF found = {} THEN Reject(401, "Invalid credentials")
          ELSE IF ~BcryptCompare(body.password, user.password_hash)
          THEN Reject(401, "Invalid credentials")
          ELSE /\ users' = users
               /\ sessions' = [s \in DOMAIN sessions \cup {sid} |->
                                  IF s = sid THEN SessionRecord(user) ELSE sessions[s]]
               /\ nextSid' = IF sid > nextSid THEN sid ELSE nextSid
               /\ issued' = issued \cup {[token |-> token, at |-> now, sid |-> sid, out |-> FALSE]}
               /\ last' = Response("login", AbsentCred, body, 200, NoStr, TRUE, TRUE,
                                   token, NoChecks)

\* POST /api/auth/login
Login(body, cookie) ==
    /\ Cardinality(issued) < MaxLogins
    /\ UNCHANGED <<now, schools, subjects, examiners, students, answerSheets, assignments,
                   serial, roleCheck, regs, reg, probe, boot, client>>
    /\ LET found == getUserByUsername(body.username)
           user == CHOOSE u \in found : TRUE
           token == JwtSign(user, JWT_SECRET, now)
           sid == SessionId(cookie)
           Reject(status, error) ==
               /\ last' = Response("login", AbsentCred, body, status, error, TRUE, FALSE,
                                   AbsentCred, NoChecks)
               /\ UNCHANGED <<users, sessions, nextSid, issued>>
       IN IF body.username = NoStr \/ body.password = << >>
          THEN Reject(400, "Username and password are required")
          ELSE IF found = {} THEN Reject(401, "Invalid credentials")
          ELSE IF ~BcryptCompare(body.password, user.password_hash)
          THEN Reject(401, "Invalid credentials")
          ELSE /\ users' = (users \ {user}) \cup {[user EXCEPT !.last_login = now]}
               /\ sessions' = [s \in DOMAIN sessions \cup {sid} |->
                                  IF s = sid THEN SessionRecord(user) ELSE sessions[s]]
               /\ nextSid' = IF sid > nextSid THEN sid ELSE nextSid
               /\ issued' = issued \cup {[token |-> token, at |-> now, sid |-> sid, out |-> FALSE]}
               /\ last' = Response("login", AbsentCred, body, 200, NoStr, TRUE, TRUE,
                                   token, NoChecks)

\* the bearer credentials a client can present: none, junk, a token login returned,
\* or such a token re-signed without the secret
CredsInPlay ==
    {AbsentCred, MalformedCred}
        \cup { e.token : e \in issued }
        \cup { [e.token EXCEPT !.sig = "forged"] : e \in issued }

\* the session cookies a client can present: none (0) or one the server has set
CookiesInPlay == 0..nextSid

NoBody == << >>

\* POST /api/auth/logout
Logout(cred, cookie) ==
    /\ UNCHANGED <<now, dbVars, nextSid, regs, reg, probe, boot, client>>
    /\ LET gate == RunChain(<<Mw("authenticateToken", << >>)>>, 1, cred, NoBody, NoUser)
       IN IF gate.kind # "next"
          THEN /\ last' = Response("logout", cred, NoBody, gate.status, gate.error, FALSE, FALSE,
                                   AbsentCred, NoChecks)
               /\ UNCHANGED <<sessions, issued>>
          ELSE /\ sessions' = [s \in DOMAIN sessions \ {cookie} |-> sessions[s]]
               /\ issued' = { IF e.token = cred THEN [e EXCEPT !.out = TRUE] ELSE e : e \in issued }
               /\ last' = Response("logout", cred, NoBody, 200, NoStr, TRUE,
                                   cookie \in DOMAIN sessions, AbsentCred, NoChecks)

\* GET /api/auth/verify
GetVerify(cred) ==
    /\ UNCHANGED <<now, dbVars, sessions, nextSid, issued, regs, reg, probe, boot, client>>
    /\ LET gate == RunChain(<<Mw("authenticateToken", << >>)>>, 1, cred, NoBody, NoUser)
       IN IF gate.kind # "next"
          THEN last' = Response("verify", cred, NoBody, gate.status, gate.error, FALSE, FALSE,
                                AbsentCred, NoChecks)
          ELSE last' = Response("verify", cred, NoBody, 200, NoStr, TRUE, FALSE,
                                AbsentCred, NoChecks)

\* time passes
Tick ==
    /\ \E t \in ClockInstants : t > now /\ now' = t
    /\ last' = Response("tick", AbsentCred, NoBody, 0, NoStr, FALSE, FALSE, AbsentCred, NoChecks)
    /\ UNCHANGED <<dbVars, sessions, nextSid, issued, regs, reg, probe, boot, client>>

RegisterBody(username, email, password, role, examinerId, schoolId) ==
    [username |-> username, email |-> email, password |-> password, role |-> role,
     examinerId |-> examinerId, schoolId |-> schoolId]

LoginBody(username, password) == [username |-> username, password |-> password]

\* the registration of the end-to-end scenario
ScenarioBody == RegisterBody("t1", "t1@x.com", Secret1, "coordinator", NoId, NoId)

LoginBodies ==
    { LoginBody("admin", Admin123), LoginBody("t1", Secret1), LoginBody("admin", Secret1),
      LoginBody("t2", Secret1), LoginBody(NoStr, Secret1) }

Init ==
    /\ Startup(TRUE)
    /\ reg = << >>
    /\ boot = Booted
    /\ client = NoClient
    /\ probe = << >>

Next ==
    \/ Register(ScenarioBody)
    \/ \E b \in LoginBodies, c \in CookiesInPlay : Login(b, c)
    \/ \E cred \in CredsInPlay, c \in CookiesInPlay : Logout(cred, c)
    \/ \E cred \in CredsInPlay : GetVerify(cred)
    \/ Tick

\* the server from the moment it listens: one registration, logins, logouts,
\* token checks, and the clock
Spec == Init /\ [][Next]_vars

----------------------------------------------------------------------------
(* Registration on its own: every request body, then logins *)

RegBodies ==
    { RegisterBody(u, e, Secret1, r, NoId, NoId) :
        u \in {"t1", "t2"}, e \in {"t1@x.com", "t2@x.com"},
        r \in {NoStr, "coordinator", "examiner", "guest"} }
        \cup { RegisterBody(NoStr, "t1@x.com", Secret1, "coordinator", NoId, NoId),
               RegisterBody("t1", "t1@x.com", Abcde, "coordinator", NoId, NoId),
               RegisterBody("t2", "t2@x.com", Wrong99, "admin", NoId, NoId),
               RegisterBody("t1", "t1@x.com", Secret1, "examiner", 1, NoId),
               RegisterBody("t1", "t1@x.com", Secret1, "examiner", 99, NoId),
               RegisterBody("t2", "t2@x.com", Secret1, "examiner", NoId, 99) }

RegLoginBodies ==
    { LoginBody(u, p) : u \in {"t1", "t2"}, p \in {Secret1, Wrong99} }

RegInit ==
    /\ \E check \in BOOLEAN : Startup(check)
    /\ reg = << >>
    /\ boot = Booted
    /\ client = NoClient
    /\ probe = << >>

RegNext ==
    \/ \E b \in RegBodies : Register(b)
    \/ \E b \in RegLoginBodies : Login(b, 0)

SpecReg == RegInit /\ [][RegNext]_vars

----------------------------------------------------------------------------
(* Two register handlers running interleaved: a step is the code up to and   *)
(* including the next awaited query                                          *)

NumHandlers == 2

Handler(body) == [pc |-> "start", body |-> body, finalExaminerId |-> NoId, status |-> 0,
                  error |-> NoStr]

Done(h, status, error) == [reg EXCEPT ![h].pc = "done", ![h].status = status, ![h].error = error]

\* the checks on the body, then SELECT ... WHERE username = $1 AND is_active = true
RegSelectUsername(h) ==
    /\ reg[h].pc = "start"
    /\ LET body == reg[h].body
           v == RegValidation(body)
       IN reg' = IF v # NoStr THEN Done(h, 400, v)
                 ELSE IF getUserByUsername(body.username) # {}
                      THEN Done(h, 400, "Username already exists")
                      ELSE [reg EXCEPT ![h].pc = "selectEmail"]
    /\ UNCHANGED <<now, dbVars, sessions, nextSid, issued, last, regs, probe, boot, client>>

\* SELECT ... WHERE email = $1 AND is_active = true
RegSelectEmail(h) ==
    /\ reg[h].pc = "selectEmail"
    /\ LET body == reg[h].body
       IN reg' = IF getUserByEmail(body.email) # {}
                 THEN Done(h, 400, "Email already registered")
                 ELSE IF NeedsExaminer(body)
                      THEN [reg EXCEPT ![h].pc = "insertExaminer"]
                      ELSE [reg EXCEPT ![h].pc = "insertUser",
                                       ![h].finalExaminerId = body.examinerId]
    /\ UNCHANGED <<now, dbVars, sessions, nextSid, issued, last, regs, probe, boot, client>>

\* CBSEDatabase.addExaminer
RegInsertExaminer(h) ==
    /\ reg[h].pc = "insertExaminer"
    /\ LET exRow == NewExaminerRow(reg[h].body)
       IN IF InsertExaminerError(exRow) # NoStr
          THEN /\ reg' = Done(h, 500, "Registration failed")
               /\ UNCHANGED <<examiners, serial>>
          ELSE /\ examiners' = examiners \cup {exRow}
               /\ serial' = Bump("examiners")
               /\ reg' = [reg EXCEPT ![h].pc = "insertUser",
                                     ![h].finalExaminerId = exRow.examiner_id]
    /\ UNCHANGED <<now, users, schools, subjects, students, answerSheets, assignments,
                   roleCheck, sessions, nextSid, issued, last, regs, probe, boot, client>>

\* CBSEDatabase.createUser, then the 201, or the catch block's 500
RegInsertUser(h) ==
    /\ reg[h].pc = "insertUser"
    /\ LET uRow == NewUserRow(reg[h].body, reg[h].finalExaminerId)
       IN IF InsertUserError(uRow @@ [new_examiner |-> NoId]) # NoStr
          THEN /\ reg' = Done(h, 500, "Registration failed")
               /\ UNCHANGED <<users, serial, regs>>
          ELSE /\ users' = users \cup {uRow}
               /\ serial' = Bump("users")
               /\ regs' = regs \cup {reg[h].body}
               /\ reg' = Done(h, 201, NoStr)
    /\ UNCHANGED <<now, schools, subjects, examiners, students, answerSheets, assignments,
                   roleCheck, sessions, nextSid, issued, last, probe, boot, client>>

RaceBodies ==
    { RegisterBody("t1", e, Secret1, r, NoId, NoId) :
        e \in {"t1@x.com", "t2@x.com"}, r \in {NoStr, "coordinator", "examiner"} }

RaceInit ==
    /\ Startup(TRUE)
    /\ boot = Booted
    /\ client = NoClient
    /\ probe = << >>
    /\ reg \in [1..NumHandlers -> { Handler(b) : b \in RaceBodies }]

RaceNext ==
    \E h \in 1..NumHandlers :
        \/ RegSelectUsername(h)
        \/ RegSelectEmail(h)
        \/ RegInsertExaminer(h)
        \/ RegInsertUser(h)

\* two registrations with the same username, their queries in any order
SpecRace == RaceInit /\ [][RaceNext]_vars

----------------------------------------------------------------------------
(* The role-gated write routes.  A request is its body together with its     *)
(* route parameter (id, rollNumber).                                         *)

MaxNewRows == 1

NotNullViolation == "23502"

Auth == Mw("authenticateToken", << >>)
Role(roles) == Mw("authorizeRole", roles)
Validate(fields) == Mw("validateRequest", fields)

\* the answer of a middleware that did not call next()
Rejected(op, cred, body, gate) ==
    last' = Response(op, cred, body, gate.status, gate.error, FALSE, FALSE, AbsentCred, NoChecks)

\* the answer of the route handler
Respond(op, cred, body, status, error, changed) ==
    last' = Response(op, cred, body, status, error, TRUE, changed, AbsentCred, NoChecks)

notTables == <<now, roleCheck, sessions, nextSid, issued, regs, reg, probe, boot, client>>

\* rows that reference a school, an examiner, a student
SchoolReferenced(id) ==
    \/ \E r \in examiners : r.school_id = id
    \/ \E r \in students : r.school_id = id
    \/ \E r \in users : r.school_id = id
    \/ \E r \in assignments : r.school_id = id

\* the rows the database would hold against the delete of an examiner, were the
\* assignments table declared without REFERENCES examiners
ExaminerReferencedNotByAssignments(id) ==
    \/ \E r \in answerSheets : r.examiner_id = id
    \/ \E r \in users : r.examiner_id = id

ExaminerReferenced(id) ==
    \/ \E r \in answerSheets : r.examiner_id = id
    \/ \E r \in assignments : r.examiner_id = id
    \/ \E r \in users : r.examiner_id = id

StudentReferenced(roll) == \E r \in answerSheets : r.student_roll_number = roll

\* app.post('/api/schools', authenticateToken, authorizeRole([...]), validateRequest([...]), ...)
PostSchool(cred, body) ==
    LET op == "POST /api/schools"
        gate == RunChain(<<Auth, Role(AdminCoordinator), Validate(<<"school_name", "location">>)>>,
                         1, cred, body, NoUser)
        row == [school_id |-> serial.schools, school_name |-> body.school_name,
                location |-> body.location]
    IN /\ UNCHANGED <<notTables, users, subjects, examiners, students, answerSheets, assignments>>
       /\ IF gate.kind # "next"
          THEN Rejected(op, cred, body, gate) /\ UNCHANGED <<schools, serial>>
          ELSE IF \E r \in schools : r.school_name = body.school_name
          THEN Respond(op, cred, body, 500, "Failed to add school", FALSE)
               /\ UNCHANGED <<schools, serial>>
          ELSE /\ serial.schools < 4 + MaxNewRows
               /\ schools' = schools \cup {row}
               /\ serial' = Bump("schools")
               /\ Respond(op, cred, body, 201, NoStr, TRUE)

\* app.put('/api/schools/:id', authorizeRole([...]), ...)
PutSchool(cred, body) ==
    LET op == "PUT /api/schools/:id"
        gate == RunChain(<<Role(AdminCoordinator)>>, 1, cred, body, NoUser)
        old == { r \in schools : r.school_id = body.id }
        new == { [r EXCEPT !.school_name = body.school_name, !.location = body.location] : r \in old }
    IN /\ UNCHANGED <<notTables, users, subjects, examiners, students, answerSheets, assignments,
                      serial>>
       /\ IF gate.kind # "next"
          THEN Rejected(op, cred, body, gate) /\ UNCHANGED schools
          ELSE IF old = {}
          THEN Respond(op, cred, body, 404, "School not found", FALSE) /\ UNCHANGED schools
          ELSE IF body.school_name = NoStr \/ body.location = NoStr
          THEN Respond(op, cred, body, 500, NotNullViolation, FALSE) /\ UNCHANGED schools
          ELSE IF \E r \in schools \ old : r.school_name = body.school_name
          THEN Respond(op, cred, body, 500, UniqueViolation, FALSE) /\ UNCHANGED schools
          ELSE /\ schools' = (schools \ old) \cup new
               /\ Respond(op, cred, body, 200, NoStr, new # old)

\* app.delete('/api/schools/:id', authorizeRole([...]), ...)
DeleteSchool(cred, body) ==
    LET op == "DELETE /api/schools/:id"
        gate == RunChain(<<Role(AdminCoordinator)>>, 1, cred, body, NoUser)
        old == { r \in schools : r.school_id = body.id }
    IN /\ UNCHANGED <<notTables, users, subjects, examiners, students, answerSheets, assignments,
                      serial>>
       /\ IF gate.kind # "next"
          THEN Rejected(op, cred, body, gate) /\ UNCHANGED schools
          ELSE IF old = {}
          THEN Respond(op, cred, body, 404, "School not found", FALSE) /\ UNCHANGED schools
          ELSE IF SchoolReferenced(body.id)
          THEN Respond(op, cred, body, 500, ForeignKeyViolation, FALSE) /\ UNCHANGED schools
          ELSE /\ schools' = schools \ old
               /\ Respond(op, cred, body, 200, NoStr, TRUE)

\* app.post('/api/examiners', authenticateToken, authorizeRole([...]), validateRequest([...]), ...)
PostExaminer(cred, body) ==
    LET op == "POST /api/examiners"
        gate == RunChain(<<Auth, Role(AdminCoordinator),
                           Validate(<<"examinerName", "schoolId", "subjectId">>)>>,
                         1, cred, body, NoUser)
        row == [examiner_id |-> serial.examiners, examiner_name |-> body.examinerName,
                school_id |-> body.schoolId, subject_id |-> body.subjectId]
    IN /\ UNCHANGED <<notTables, users, schools, subjects, students, answerSheets, assignments>>
       /\ IF gate.kind # "next"
          THEN Rejected(op, cred, body, gate) /\ UNCHANGED <<examiners, serial>>
          ELSE IF InsertExaminerError(row) # NoStr
          THEN Respond(op, cred, body, 500, InsertExaminerError(row), FALSE)
               /\ UNCHANGED <<examiners, serial>>
          ELSE /\ serial.examiners < 5 + MaxNewRows
               /\ examiners' = examiners \cup {row}
               /\ serial' = Bump("examiners")
               /\ Respond(op, cred, body, 201, NoStr, TRUE)

\* app.put('/api/examiners/:id', authenticateToken, authorizeRole([...]), ...)
PutExaminer(cred, body) ==
    LET op == "PUT /api/examiners/:id"
        gate == RunChain(<<Auth, Role(AdminCoordinator)>>, 1, cred, body, NoUser)
        old == { r \in examiners : r.examiner_id = body.id }
        new == { [r EXCEPT !.examiner_name = body.examinerName, !.school_id = body.schoolId,
                           !.subject_id = body.subjectId] : r \in old }
    IN /\ UNCHANGED <<notTables, users, schools, subjects, students, answerSheets, assignments,
                      serial>>
       /\ IF gate.kind # "next"
          THEN Rejected(op, cred, body, gate) /\ UNCHANGED examiners
          ELSE IF old = {}
          THEN Respond(op, cred, body, 404, "Examiner not found", FALSE) /\ UNCHANGED examiners
          ELSE IF body.examinerName = NoStr
          THEN Respond(op, cred, body, 500, NotNullViolation, FALSE) /\ UNCHANGED examiners
          ELSE IF \E r \in new : InsertExaminerError(r) # NoStr
          THEN Respond(op, cred, body, 500, ForeignKeyViolation, FALSE) /\ UNCHANGED examiners
          ELSE /\ examiners' = (examiners \ old) \cup new
               /\ Respond(op, cred, body, 200, NoStr, new # old)

\* app.delete('/api/examiners/:id', authenticateToken, authorizeRole([...]), ...)
DeleteExaminer(cred, body) ==
    LET op == "DELETE /api/examiners/:id"
        gate == RunChain(<<Auth, Role(AdminCoordinator)>>, 1, cred, body, NoUser)
        old == { r \in examiners : r.examiner_id = body.id }
    IN /\ UNCHANGED <<notTables, users, schools, subjects, students, answerSheets, assignments,
                      serial>>
       /\ IF gate.kind # "next"
          THEN Rejected(op, cred, body, gate) /\ UNCHANGED examiners
          ELSE IF old = {}
          THEN Respond(op, cred, body, 404, "Examiner not found", FALSE) /\ UNCHANGED examiners
          ELSE IF ExaminerReferenced(body.id)
          THEN Respond(op, cred, body, 500, ForeignKeyViolation, FALSE) /\ UNCHANGED examiners
          ELSE /\ examiners' = examiners \ old
               /\ Respond(op, cred, body, 200, NoStr, TRUE)

\* INSERT INTO students: the UNIQUE roll number, the REFERENCES
InsertStudentError(row, table) ==
    IF row.student_roll_number = NoStr \/ row.student_name = NoStr THEN NotNullViolation
    ELSE IF \E r \in table : r.student_roll_number = row.student_roll_number THEN UniqueViolation
    ELSE IF row.school_id # NoId /\ ~SchoolExists(row.school_id) THEN ForeignKeyViolation
    ELSE NoStr

\* the row CBSEDatabase.addStudent inserts
StudentRow(data) ==
    [student_roll_number |-> data.studentRollNumber, student_name |-> data.studentName,
     school_id |-> data.schoolId]

\* app.post('/api/students', authenticateToken, authorizeRole([...]), validateRequest([...]), ...)
PostStudent(cred, body) ==
    LET op == "POST /api/students"
        gate == RunChain(<<Auth, Role(AdminCoordinator),
                           Validate(<<"studentRollNumber", "studentName", "schoolId">>)>>,
                         1, cred, body, NoUser)
        row == StudentRow(body)
        err == InsertStudentError(row, students)
    IN /\ UNCHANGED <<notTables, users, schools, subjects, examiners, answerSheets, assignments,
                      serial>>
       /\ IF gate.kind # "next"
          THEN Rejected(op, cred, body, gate) /\ UNCHANGED students
          ELSE IF err = UniqueViolation
          THEN Respond(op, cred, body, 400, "Student roll number already exists", FALSE)
               /\ UNCHANGED students
          ELSE IF err # NoStr
          THEN Respond(op, cred, body, 500, err, FALSE) /\ UNCHANGED students
          ELSE /\ Cardinality(students) < 2 + MaxNewRows
               /\ students' = students \cup {row}
               /\ Respond(op, cred, body, 201, NoStr, TRUE)

\* app.put('/api/students/:rollNumber', authenticateToken, authorizeRole([...]), ...)
PutStudent(cred, body) ==
    LET op == "PUT /api/students/:rollNumber"
        gate == RunChain(<<Auth, Role(AdminCoordinator)>>, 1, cred, body, NoUser)
        old == { r \in students : r.student_roll_number = body.rollNumber }
        new == { [r EXCEPT !.student_name = body.studentName, !.school_id = body.schoolId] :
                   r \in old }
    IN /\ UNCHANGED <<notTables, users, schools, subjects, examiners, answerSheets, assignments,
                      serial>>
       /\ IF gate.kind # "next"
          THEN Rejected(op, cred, body, gate) /\ UNCHANGED students
          ELSE IF old = {}
          THEN Respond(op, cred, body, 404, "Student not found", FALSE) /\ UNCHANGED students
          ELSE IF body.studentName = NoStr
          THEN Respond(op, cred, body, 500, NotNullViolation, FALSE) /\ UNCHANGED students
          ELSE IF body.schoolId # NoId /\ ~SchoolExists(body.schoolId)
          THEN Respond(op, cred, body, 500, ForeignKeyViolation, FALSE) /\ UNCHANGED students
          ELSE /\ students' = (students \ old) \cup new
               /\ Respond(op, cred, body, 200, NoStr, new # old)

\* app.delete('/api/students/:rollNumber', authenticateToken, authorizeRole([...]), ...)
DeleteStudent(cred, body) ==
    LET op == "DELETE /api/students/:rollNumber"
        gate == RunChain(<<Auth, Role(AdminCoordinator)>>, 1, cred, body, NoUser)
        old == { r \in students : r.student_roll_number = body.rollNumber }
    IN /\ UNCHANGED <<notTables, users, schools, subjects, examiners, answerSheets, assignments,
                      serial>>
       /\ IF gate.kind # "next"
          THEN Rejected(op, cred, body, gate) /\ UNCHANGED students
          ELSE IF old = {}
          THEN Respond(op, cred, body, 404, "Student not found", FALSE) /\ UNCHANGED students
          ELSE IF StudentReferenced(body.rollNumber)
          THEN Respond(op, cred, body, 500, ForeignKeyViolation, FALSE) /\ UNCHANGED students
          ELSE /\ students' = students \ old
               /\ Respond(op, cred, body, 200, NoStr, TRUE)

\* the loop of the bulk route: each addStudent that succeeds inserts its row, each
\* that fails is recorded and skipped
RECURSIVE BulkInsert(_, _, _)
BulkInsert(list, i, table) ==
    IF i > Len(list) THEN table
    ELSE LET row == StudentRow(list[i])
         IN IF InsertStudentError(row, table) # NoStr THEN BulkInsert(list, i + 1, table)
            ELSE BulkInsert(list, i + 1, table \cup {row})

\* app.post('/api/bulk/students', ...): no middleware
BulkStudents(cred, body) ==
    LET op == "POST /api/bulk/students"
        after == BulkInsert(body.students, 1, students)
    IN /\ UNCHANGED <<notTables, users, schools, subjects, examiners, answerSheets, assignments,
                      serial>>
       /\ Cardinality(after) <= 2 + MaxNewRows
       /\ students' = after
       /\ Respond(op, cred, body, 200, NoStr, after # students)

\* exam_date DATE NOT NULL: the server accepts the YYYY-MM-DD strings that name a day
\* of the calendar (strings of other shapes are not drawn)
PgDateAccepts(s) == DateRegexTest(s) /\ NewDate(s, FALSE) # InvalidDate

\* INSERT INTO invigilation_assignments: the NOT NULL columns, the DATE, the REFERENCES
InsertAssignmentError(row) ==
    IF row.exam_date = << >> \/ row.exam_session = NoStr THEN NotNullViolation
    ELSE IF ~PgDateAccepts(row.exam_date) THEN "22008"
    ELSE IF row.examiner_id # NoId /\ ~ExaminerExists(row.examiner_id) THEN ForeignKeyViolation
    ELSE IF row.school_id # NoId /\ ~SchoolExists(row.school_id) THEN ForeignKeyViolation
    ELSE IF row.subject_id # NoId /\ ~SubjectExists(row.subject_id) THEN ForeignKeyViolation
    ELSE NoStr

\* app.post('/api/invigilation', authenticateToken, authorizeRole([...]), validateRequest([...]), ...)
PostInvigilation(cred, body) ==
    LET op == "POST /api/invigilation"
        gate == RunChain(<<Auth, Role(AdminCoordinator),
                           Validate(<<"examinerId", "schoolId", "examDate", "examSession">>)>>,
                         1, cred, body, NoUser)
        row == [assignment_id |-> serial.assignments, examiner_id |-> body.examinerId,
                school_id |-> body.schoolId, exam_date |-> body.examDate,
                exam_session |-> body.examSession, subject_id |-> body.subjectId]
    IN /\ UNCHANGED <<notTables, users, schools, subjects, examiners, students, answerSheets>>
       /\ IF gate.kind # "next"
          THEN Rejected(op, cred, body, gate) /\ UNCHANGED <<assignments, serial>>
          ELSE IF InsertAssignmentError(row) # NoStr
          THEN Respond(op, cred, body, 500, InsertAssignmentError(row), FALSE)
               /\ UNCHANGED <<assignments, serial>>
          ELSE /\ serial.assignments < 4 + MaxNewRows
               /\ assignments' = assignments \cup {row}
               /\ serial' = Bump("assignments")
               /\ Respond(op, cred, body, 201, NoStr, TRUE)

InvalidDateError == "Invalid exam date format. Use YYYY-MM-DD."
UnknownExaminerError == "Invalid examiner ID"
UnknownSchoolError == "Invalid school ID"
UnknownSubjectError == "Invalid subject ID"

InvigilationChecksSchoolFirst(body, lenient) ==
    IF ~isValidDate(body.examDate, lenient)
    THEN [error |-> InvalidDateError, checks |-> <<"examDate">>]
    ELSE IF ~SchoolExists(body.schoolId)
    THEN [error |-> UnknownSchoolError, checks |-> <<"examDate", "school">>]
    ELSE IF ~ExaminerExists(body.examinerId)
    THEN [error |-> UnknownExaminerError, checks |-> <<"examDate", "school", "examiner">>]
    ELSE IF ~SubjectExists(body.subjectId)
    THEN [error |-> UnknownSubjectError,
          checks |-> <<"examDate", "school", "examiner", "subject">>]
    ELSE [error |-> NoStr, checks |-> <<"examDate", "school", "examiner", "subject">>]

\* the checks of the update handler before its UPDATE: the error of the first that
\* fails (NoStr if none does) and the checks evaluated up to there
InvigilationChecks(body, lenient) ==
    IF ~isValidDate(body.examDate, lenient)
    THEN [error |-> InvalidDateError, checks |-> <<"examDate">>]
    ELSE IF ~ExaminerExists(body.examinerId)
    THEN [error |-> UnknownExaminerError, checks |-> <<"examDate", "examiner">>]
    ELSE IF ~SchoolExists(body.schoolId)
    THEN [error |-> UnknownSchoolError, checks |-> <<"examDate", "examiner", "school">>]
    ELSE IF ~SubjectExists(body.subjectId)
    THEN [error |-> UnknownSubjectError,
          checks |-> <<"examDate", "examiner", "school", "subject">>]
    ELSE [error |-> NoStr, checks |-> <<"examDate", "examiner", "school", "subject">>]

\* app.put('/api/invigilation/:id', authenticateToken, authorizeRole([...]), validateRequest([...]), ...)
\* lenient: whether the engine's Date rolls an overlong day into the next month
PutInvigilation(cred, body, lenient) ==
    LET op == "PUT /api/invigilation/:id"
        gate == RunChain(<<Auth, Role(AdminCoordinator),
                           Validate(<<"examinerId", "schoolId", "examDate", "examSession",
                                      "subjectId">>)>>,
                         1, cred, body, NoUser)
        c == InvigilationChecks(body, lenient)
        old == { r \in assignments : r.assignment_id = body.id }
        new == { [r EXCEPT !.examiner_id = body.examinerId, !.school_id = body.schoolId,
                           !.exam_date = body.examDate, !.exam_session = body.examSession,
                           !.subject_id = body.subjectId] : r \in old }
    IN /\ UNCHANGED <<notTables, users, schools, subjects, examiners, students, answerSheets,
                      serial>>
       /\ IF gate.kind # "next"
          THEN Rejected(op, cred, body, gate) /\ UNCHANGED assignments
          ELSE IF c.error # NoStr
          THEN /\ last' = Response(op, cred, body, 400, c.error, TRUE, FALSE, AbsentCred, c.checks)
               /\ UNCHANGED assignments
          ELSE IF old = {}
          THEN /\ last' = Response(op, cred, body, 404, "Assignment not found", TRUE, FALSE,
                                   AbsentCred, c.checks)
               /\ UNCHANGED assignments
          ELSE /\ assignments' = (assignments \ old) \cup new
               /\ last' = Response(op, cred, body, 200, NoStr, TRUE, new # old, AbsentCred,
                                   c.checks)

DeleteInvigilationNoRole(cred, body) ==
    LET op == "DELETE /api/invigilation/:id"
        gate == RunChain(<<Auth>>, 1, cred, body, NoUser)
        old == { r \in assignments : r.assignment_id = body.id }
    IN /\ UNCHANGED <<notTables, users, schools, subjects, examiners, students, answerSheets,
                      serial>>
       /\ IF gate.kind # "next"
          THEN Rejected(op, cred, body, gate) /\ UNCHANGED assignments
          ELSE IF old = {}
          THEN Respond(op, cred, body, 404, "Assignment not found", FALSE)
               /\ UNCHANGED assignments
          ELSE /\ assignments' = assignments \ old
               /\ Respond(op, cred, body, 200, NoStr, TRUE)

\* app.delete('/api/invigilation/:id', authenticateToken, authorizeRole([...]), ...)
DeleteInvigilation(cred, body) ==
    LET op == "DELETE /api/invigilation/:id"
        gate == RunChain(<<Auth, Role(AdminCoordinator)>>, 1, cred, body, NoUser)
        old == { r \in assignments : r.assignment_id = body.id }
    IN /\ UNCHANGED <<notTables, users, schools, subjects, examiners, students, answerSheets,
                      serial>>
       /\ IF gate.kind # "next"
          THEN Rejected(op, cred, body, gate) /\ UNCHANGED assignments
          ELSE IF old = {}
          THEN Respond(op, cred, body, 404, "Assignment not found", FALSE)
               /\ UNCHANGED assignments
          ELSE /\ assignments' = assignments \ old
               /\ Respond(op, cred, body, 200, NoStr, TRUE)

----------------------------------------------------------------------------
(* The write routes under the three roles *)

\* the rows of the registrations of t1 (coordinator) and t2 (examiner, whose examiner
\* row the register handler created) after they logged in at time 0
T1User ==
    [user_id |-> 2, username |-> "t1", email |-> "t1@x.com",
     password_hash |-> BcryptHash(Secret1), role |-> "coordinator", examiner_id |-> NoId,
     school_id |-> NoId, is_active |-> TRUE, last_login |-> 0]

T2Examiner == [examiner_id |-> 4, examiner_name |-> "t2", school_id |-> 1, subject_id |-> 1]

T2User ==
    [user_id |-> 3, username |-> "t2", email |-> "t2@x.com",
     password_hash |-> BcryptHash(Secret1), role |-> "examiner", examiner_id |-> 4,
     school_id |-> NoId, is_active |-> TRUE, last_login |-> 0]

LoggedIn == <<[AdminUser EXCEPT !.last_login = 0], T1User, T2User>>

\* the server after t1 and t2 registered and admin, t1 and t2 logged in, each from a
\* client without a cookie
RBACInit ==
    /\ now = 0
    /\ users = { LoggedIn[i] : i \in 1..3 }
    /\ schools = SampleSchools
    /\ subjects = SampleSubjects
    /\ examiners = SampleExaminers \cup {T2Examiner}
    /\ students = SampleStudents
    /\ answerSheets = SampleAnswerSheets
    /\ assignments = SampleAssignments
    /\ serial = [users |-> 4, schools |-> 4, subjects |-> 6, examiners |-> 5, assignments |-> 4]
    /\ roleCheck = FALSE
    /\ sessions = [i \in 1..3 |-> SessionRecord(LoggedIn[i])]
    /\ nextSid = 3
    /\ issued = { [token |-> JwtSign(LoggedIn[i], JWT_SECRET, 0), at |-> 0, sid |-> i,
                   out |-> FALSE] : i \in 1..3 }
    /\ regs = { RegisterBody("t1", "t1@x.com", Secret1, "coordinator", NoId, NoId),
                RegisterBody("t2", "t2@x.com", Secret1, "examiner", NoId, NoId) }
    /\ last = Response("login", AbsentCred, LoginBody("t2", Secret1), 200, NoStr, TRUE, TRUE,
                       JwtSign(T2User, JWT_SECRET, 0), NoChecks)
    /\ reg = << >>
    /\ boot = Booted
    /\ client = NoClient
    /\ probe = << >>

\* no token, or one of the three
RBACCreds == {AbsentCred} \cup { e.token : e \in issued }

UnknownId == 999

SchoolBody(id, name, location) == [id |-> id, school_name |-> name, location |-> location]
ExaminerBody(id, name, schoolId, subjectId) ==
    [id |-> id, examinerName |-> name, schoolId |-> schoolId, subjectId |-> subjectId]
StudentBody(roll, name, schoolId) ==
    [studentRollNumber |-> roll, studentName |-> name, schoolId |-> schoolId]
AssignmentBody(id, examinerId, schoolId, examDate, examSession, subjectId) ==
    [id |-> id, examinerId |-> examinerId, schoolId |-> schoolId, examDate |-> examDate,
     examSession |-> examSession, subjectId |-> subjectId]

\* a school that is new and one whose name is taken
SchoolBodies ==
    { SchoolBody(NoId, "Test School", "City"), SchoolBody(NoId, "Delhi Public School", "City") }
SchoolUpdates == { SchoolBody(3, "Test School", "City") }
SchoolIds == { [id |-> 3] }

\* the examiner the route adds gets id 5
ExaminerBodies ==
    { ExaminerBody(NoId, "New Examiner", 1, 1), ExaminerBody(NoId, "New Examiner", UnknownId, 1) }
ExaminerUpdates == { ExaminerBody(5, "Renamed", 1, 1) }
ExaminerIds == { [id |-> id] : id \in {1, 5} }

StudentBodies ==
    { StudentBody("2024001003", "New Student", 1), StudentBody("2024001001", "New Student", 1) }
StudentUpdates == { [rollNumber |-> "2024001003", studentName |-> "Renamed", schoolId |-> 2] }
StudentRolls == { [rollNumber |-> r] : r \in {"2024001001", "2024001003"} }
BulkBodies ==
    { [students |-> <<StudentBody("2024001001", "New Student", 1),
                      StudentBody("2024001003", "New Student", 1)>>] }

\* the assignment the route adds gets id 4
AssignmentBodies == { AssignmentBody(NoId, 3, 3, D(2025, 6, 1), "Evening", 3) }
AssignmentUpdates ==
    { AssignmentBody(4, 1, 1, D(2025, 6, 1), "Evening", 1),
      AssignmentBody(4, UnknownId, 1, D(2025, 6, 1), "Evening", 1) }
AssignmentIds == { [id |-> 4] }

RBACNext ==
    \/ \E cred \in RBACCreds, b \in BulkBodies : BulkStudents(cred, b)
    \/ \E cred \in RBACCreds, b \in SchoolBodies : PostSchool(cred, b)
    \/ \E cred \in RBACCreds, b \in SchoolUpdates : PutSchool(cred, b)
    \/ \E cred \in RBACCreds, b \in SchoolIds : DeleteSchool(cred, b)
    \/ \E cred \in RBACCreds, b \in ExaminerBodies : PostExaminer(cred, b)
    \/ \E cred \in RBACCreds, b \in ExaminerUpdates : PutExaminer(cred, b)
    \/ \E cred \in RBACCreds, b \in ExaminerIds : DeleteExaminer(cred, b)
    \/ \E cred \in RBACCreds, b \in StudentBodies : PostStudent(cred, b)
    \/ \E cred \in RBACCreds, b \in StudentUpdates : PutStudent(cred, b)
    \/ \E cred \in RBACCreds, b \in StudentRolls : DeleteStudent(cred, b)
    \/ \E cred \in RBACCreds, b \in AssignmentBodies : PostInvigilation(cred, b)
    \/ \E cred \in RBACCreds, b \in AssignmentUpdates, lenient \in BOOLEAN :
          PutInvigilation(cred, b, lenient)
    \/ \E cred \in RBACCreds, b \in AssignmentIds : DeleteInvigilation(cred, b)

\* the write routes, called without a token and with the token of each role
SpecRBAC == RBACInit /\ [][RBACNext]_vars

----------------------------------------------------------------------------
(* The invigilation routes on every combination of references *)

InvigilationInit == RBACInit

\* school 4 exists once the school route has added it
InvigilationCreates ==
    { AssignmentBody(NoId, 3, 3, D(2025, 6, 1), "Evening", 3),
      AssignmentBody(NoId, 3, 3, D(2025, 6, 1), "Evening", NoId),
      AssignmentBody(NoId, UnknownId, 3, D(2025, 6, 1), "Evening", 3),
      AssignmentBody(NoId, 3, 3, D(2025, 2, 30), "Evening", 3) }
InvigilationUpdates ==
    { AssignmentBody(1, e, sc, d, "Evening", su) :
        e \in {1, UnknownId}, sc \in {1, 4, UnknownId}, su \in {1, UnknownId},
        d \in {D(2025, 6, 1), D(2025, 2, 30)} }
      \cup { AssignmentBody(1, 1, 1, D(2025, 6, 1), "Evening", NoId),
             AssignmentBody(UnknownId, 1, 1, D(2025, 6, 1), "Evening", 1) }
InvigilationIds == { [id |-> id] : id \in {1, UnknownId} }

InvigilationNext ==
    \/ \E cred \in RBACCreds : PostSchool(cred, SchoolBody(NoId, "Test School", "City"))
    \/ \E cred \in RBACCreds, b \in InvigilationCreates : PostInvigilation(cred, b)
    \/ \E cred \in RBACCreds, b \in InvigilationUpdates, lenient \in BOOLEAN :
          PutInvigilation(cred, b, lenient)
    \/ \E cred \in RBACCreds, b \in InvigilationIds : DeleteInvigilation(cred, b)

SpecInvigilation == InvigilationInit /\ [][InvigilationNext]_vars

----------------------------------------------------------------------------
(* The invigilation routes under every credential, while tokens expire *)

AssignInit == RBACInit

AssignNext ==
    \/ \E cred \in CredsInPlay, b \in AssignmentBodies : PostInvigilation(cred, b)
    \/ \E cred \in CredsInPlay, b \in AssignmentUpdates, lenient \in BOOLEAN :
          PutInvigilation(cred, b, lenient)
    \/ \E cred \in CredsInPlay, b \in AssignmentIds \cup InvigilationIds :
          DeleteInvigilation(cred, b)
    \/ \E cred \in CredsInPlay, b \in BulkBodies : BulkStudents(cred, b)
    \/ Tick

SpecAssign == AssignInit /\ [][AssignNext]_vars

----------------------------------------------------------------------------
(* Answer sheets and subjects *)

\* marks_assigned when the request gives none (NULL)
NoMarks == 0 - 1

\* the highest mark CHECK (marks_assigned >= 0 AND marks_assigned <= 50) admits
MaxMarks == 50

\* the view evaluation_summary: the sheets joined to their student, subject, examiner
EvaluationSummary ==
    { a \in answerSheets :
        /\ StudentExists(a.student_roll_number)
        /\ SubjectExists(a.subject_id)
        /\ ExaminerExists(a.examiner_id) }

getAnswerSheetsByExaminerAll(examinerId) == EvaluationSummary

\* SELECT * FROM evaluation_summary WHERE examiner_id = $1
getAnswerSheetsByExaminer(examinerId) ==
    { a \in EvaluationSummary : a.examiner_id = examinerId }

\* SELECT * FROM evaluation_summary ORDER BY evaluation_date DESC
getAllAnswerSheets == EvaluationSummary

\* app.get('/api/answer-sheets', authenticateToken, ...); probe holds the rows sent
GetAnswerSheets(cred) ==
    LET op == "GET /api/answer-sheets"
        gate == RunChain(<<Auth>>, 1, cred, NoBody, NoUser)
    IN /\ UNCHANGED <<now, dbVars, sessions, nextSid, issued, regs, reg, boot, client>>
       /\ IF gate.kind # "next"
          THEN /\ Rejected(op, cred, NoBody, gate)
               /\ probe' = [rows |-> {}]
          ELSE IF gate.user.role = "examiner" /\ gate.user.examinerId = NoId
          THEN /\ Respond(op, cred, NoBody, 400, "Examiner ID not associated with this user",
                          FALSE)
               /\ probe' = [rows |-> {}]
          ELSE /\ Respond(op, cred, NoBody, 200, NoStr, FALSE)
               /\ probe' = [rows |-> IF gate.user.role = "examiner"
                                     THEN getAnswerSheetsByExaminer(gate.user.examinerId)
                                     ELSE getAllAnswerSheets]

\* INSERT INTO answer_sheets: the CHECK on marks, the UNIQUE book id, the REFERENCES
InsertAnswerSheetError(row) ==
    IF row.marks_assigned # NoMarks /\ row.marks_assigned > MaxMarks THEN CheckViolation
    ELSE IF \E r \in answerSheets : r.answer_book_id = row.answer_book_id THEN UniqueViolation
    ELSE IF ~StudentExists(row.student_roll_number) \/ ~SubjectExists(row.subject_id)
            \/ ~ExaminerExists(row.examiner_id) THEN ForeignKeyViolation
    ELSE NoStr

\* app.post('/api/answer-sheets', authenticateToken, authorizeRole([...]), validateRequest([...]), ...)
PostAnswerSheet(cred, body) ==
    LET op == "POST /api/answer-sheets"
        gate == RunChain(<<Auth, Role(AdminCoordinator),
                           Validate(<<"answerBookId", "studentRollNumber", "subjectId",
                                      "examinerId">>)>>,
                         1, cred, body, NoUser)
        row == [answer_book_id |-> body.answerBookId,
                student_roll_number |-> body.studentRollNumber, subject_id |-> body.subjectId,
                examiner_id |-> body.examinerId, marks_assigned |-> body.marksAssigned]
        err == InsertAnswerSheetError(row)
    IN /\ UNCHANGED <<notTables, users, schools, subjects, examiners, students, assignments,
                      serial>>
       /\ IF gate.kind # "next"
          THEN Rejected(op, cred, body, gate) /\ UNCHANGED answerSheets
          ELSE IF err = UniqueViolation
          THEN Respond(op, cred, body, 400, "Answer book ID already exists", FALSE)
               /\ UNCHANGED answerSheets
          ELSE IF err # NoStr
          THEN Respond(op, cred, body, 500, err, FALSE) /\ UNCHANGED answerSheets
          ELSE /\ Cardinality(answerSheets) < 2 + MaxNewRows
               /\ answerSheets' = answerSheets \cup {row}
               /\ Respond(op, cred, body, 201, NoStr, TRUE)

\* app.put('/api/answer-sheets/:answerBookId', authenticateToken, authorizeRole([...]), ...):
\* res.json(answerSheet) answers 200 also when the UPDATE matched no row
PutAnswerSheet(cred, body) ==
    LET op == "PUT /api/answer-sheets/:answerBookId"
        gate == RunChain(<<Auth, Role(AdminCoordinator)>>, 1, cred, body, NoUser)
        old == { r \in answerSheets : r.answer_book_id = body.answerBookId }
        new == { [r EXCEPT !.marks_assigned = body.marks_assigned] : r \in old }
    IN /\ UNCHANGED <<notTables, users, schools, subjects, examiners, students, assignments,
                      serial>>
       /\ IF gate.kind # "next"
          THEN Rejected(op, cred, body, gate) /\ UNCHANGED answerSheets
          ELSE IF old # {} /\ body.marks_assigned # NoMarks /\ body.marks_assigned > MaxMarks
          THEN Respond(op, cred, body, 500, CheckViolation, FALSE) /\ UNCHANGED answerSheets
          ELSE /\ answerSheets' = (answerSheets \ old) \cup new
               /\ Respond(op, cred, body, 200, NoStr, new # old)

\* app.delete('/api/answer-sheets/:answerBookId', authenticateToken, authorizeRole([...]), ...)
DeleteAnswerSheet(cred, body) ==
    LET op == "DELETE /api/answer-sheets/:answerBookId"
        gate == RunChain(<<Auth, Role(AdminCoordinator)>>, 1, cred, body, NoUser)
        old == { r \in answerSheets : r.answer_book_id = body.answerBookId }
    IN /\ UNCHANGED <<notTables, users, schools, subjects, examiners, students, assignments,
                      serial>>
       /\ IF gate.kind # "next"
          THEN Rejected(op, cred, body, gate) /\ UNCHANGED answerSheets
          ELSE IF old = {}
          THEN Respond(op, cred, body, 404, "Answer sheet not found", FALSE)
               /\ UNCHANGED answerSheets
          ELSE /\ answerSheets' = answerSheets \ old
               /\ Respond(op, cred, body, 200, NoStr, TRUE)

SubjectReferenced(id) ==
    \/ \E r \in examiners : r.subject_id = id
    \/ \E r \in answerSheets : r.subject_id = id
    \/ \E r \in assignments : r.subject_id = id

\* app.post('/api/subjects', authenticateToken, authorizeRole([...]), validateRequest([...]), ...)
PostSubject(cred, body) ==
    LET op == "POST /api/subjects"
        gate == RunChain(<<Auth, Role(AdminCoordinator),
                           Validate(<<"subject_name", "subject_code">>)>>,
                         1, cred, body, NoUser)
        row == [subject_id |-> serial.subjects, subject_code |-> body.subject_code]
    IN /\ UNCHANGED <<notTables, users, schools, examiners, students, answerSheets, assignments>>
       /\ IF gate.kind # "next"
          THEN Rejected(op, cred, body, gate) /\ UNCHANGED <<subjects, serial>>
          ELSE IF \E r \in subjects : r.subject_code = body.subject_code
          THEN Respond(op, cred, body, 400, "Subject code already exists", FALSE)
               /\ UNCHANGED <<subjects, serial>>
          ELSE /\ serial.subjects < 6 + MaxNewRows
               /\ subjects' = subjects \cup {row}
               /\ serial' = Bump("subjects")
               /\ Respond(op, cred, body, 201, NoStr, TRUE)

\* app.put('/api/subjects/:id', authenticateToken, authorizeRole([...]), ...)
PutSubject(cred, body) ==
    LET op == "PUT /api/subjects/:id"
        gate == RunChain(<<Auth, Role(AdminCoordinator)>>, 1, cred, body, NoUser)
        old == { r \in subjects : r.subject_id = body.id }
        new == { [r EXCEPT !.subject_code = body.subject_code] : r \in old }
    IN /\ UNCHANGED <<notTables, users, schools, examiners, students, answerSheets, assignments,
                      serial>>
       /\ IF gate.kind # "next"
          THEN Rejected(op, cred, body, gate) /\ UNCHANGED subjects
          ELSE IF old = {}
          THEN Respond(op, cred, body, 404, "Subject not found", FALSE) /\ UNCHANGED subjects
          ELSE IF body.subject_name = NoStr \/ body.subject_code = NoStr
          THEN Respond(op, cred, body, 500, NotNullViolation, FALSE) /\ UNCHANGED subjects
          ELSE IF \E r \in subjects \ old : r.subject_code = body.subject_code
          THEN Respond(op, cred, body, 500, UniqueViolation, FALSE) /\ UNCHANGED subjects
          ELSE /\ subjects' = (subjects \ old) \cup new
               /\ Respond(op, cred, body, 200, NoStr, new # old)

\* app.delete('/api/subjects/:id', authenticateToken, authorizeRole([...]), ...)
DeleteSubject(cred, body) ==
    LET op == "DELETE /api/subjects/:id"
        gate == RunChain(<<Auth, Role(AdminCoordinator)>>, 1, cred, body, NoUser)
        old == { r \in subjects : r.subject_id = body.id }
    IN /\ UNCHANGED <<notTables, users, schools, examiners, students, answerSheets, assignments,
                      serial>>
       /\ IF gate.kind # "next"
          THEN Rejected(op, cred, body, gate) /\ UNCHANGED subjects
          ELSE IF old = {}
          THEN Respond(op, cred, body, 404, "Subject not found", FALSE) /\ UNCHANGED subjects
          ELSE IF SubjectReferenced(body.id)
          THEN Respond(op, cred, body, 500, ForeignKeyViolation, FALSE) /\ UNCHANGED subjects
          ELSE /\ subjects' = subjects \ old
               /\ Respond(op, cred, body, 200, NoStr, TRUE)

\* the row of the registration of t3, which named no role and no examiner
T3User ==
    [user_id |-> 4, username |-> "t3", email |-> "t3@x.com",
     password_hash |-> BcryptHash(Secret1), role |-> "examiner", examiner_id |-> NoId,
     school_id |-> NoId, is_active |-> TRUE, last_login |-> 0]

SheetUsers == LoggedIn \o <<T3User>>

\* the server after t1, t2 and t3 registered and the four users logged in, each from a
\* client without a cookie
SheetsInit ==
    /\ now = 0
    /\ users = { SheetUsers[i] : i \in 1..4 }
    /\ schools = SampleSchools
    /\ subjects = SampleSubjects
    /\ examiners = SampleExaminers \cup {T2Examiner}
    /\ students = SampleStudents
    /\ answerSheets = SampleAnswerSheets
    /\ assignments = SampleAssignments
    /\ serial = [users |-> 5, schools |-> 4, subjects |-> 6, examiners |-> 5, assignments |-> 4]
    /\ roleCheck = FALSE
    /\ sessions = [i \in 1..4 |-> SessionRecord(SheetUsers[i])]
    /\ nextSid = 4
    /\ issued = { [token |-> JwtSign(SheetUsers[i], JWT_SECRET, 0), at |-> 0, sid |-> i,
                   out |-> FALSE] : i \in 1..4 }
    /\ regs = { RegisterBody("t1", "t1@x.com", Secret1, "coordinator", NoId, NoId),
                RegisterBody("t2", "t2@x.com", Secret1, "examiner", NoId, NoId),
                RegisterBody("t3", "t3@x.com", Secret1, NoStr, NoId, NoId) }
    /\ last = Response("login", AbsentCred, LoginBody("t3", Secret1), 200, NoStr, TRUE, TRUE,
                       JwtSign(T3User, JWT_SECRET, 0), NoChecks)
    /\ reg = << >>
    /\ boot = Booted
    /\ client = NoClient
    /\ probe = [rows |-> {}]

SheetBody(answerBookId, studentRollNumber, subjectId, examinerId, marksAssigned) ==
    [answerBookId |-> answerBookId, studentRollNumber |-> studentRollNumber,
     subjectId |-> subjectId, examinerId |-> examinerId, marksAssigned |-> marksAssigned]
SheetMarks(answerBookId, marks) == [answerBookId |-> answerBookId, marks_assigned |-> marks]
SubjectBody(id, name, code) == [id |-> id, subject_name |-> name, subject_code |-> code]

\* a sheet for the examiner of t2, one whose book id is taken, one for no examiner
SheetBodies ==
    { SheetBody("AB2024003", "2024001001", 1, 4, 30),
      SheetBody("AB2024001", "2024001001", 1, 4, 30),
      SheetBody("AB2024003", "2024001001", 1, UnknownId, 30) }
SheetUpdates ==
    { SheetMarks("AB2024001", 40), SheetMarks("AB2024001", MaxMarks + 1),
      SheetMarks("nobook", 40) }
SheetIds == { [answerBookId |-> b] : b \in {"AB2024003", "nobook"} }

\* the subject the route adds gets id 6
SubjectBodies == { SubjectBody(NoId, "History", "HIS001"), SubjectBody(NoId, "Maths", "MATH001") }
SubjectUpdates ==
    { SubjectBody(6, "Geography", "GEO001"), SubjectBody(6, "Geography", "MATH001"),
      SubjectBody(UnknownId, "Geography", "GEO001") }
SubjectIds == { [id |-> id] : id \in {1, 6, UnknownId} }

SheetsNext ==
    \/ \E cred \in RBACCreds : GetAnswerSheets(cred)
    \/ \E cred \in RBACCreds, b \in SheetBodies : PostAnswerSheet(cred, b)
    \/ \E cred \in RBACCreds, b \in SheetUpdates : PutAnswerSheet(cred, b)
    \/ \E cred \in RBACCreds, b \in SheetIds : DeleteAnswerSheet(cred, b)
    \/ \E cred \in RBACCreds, b \in SubjectBodies : PostSubject(cred, b)
    \/ \E cred \in RBACCreds, b \in SubjectUpdates : PutSubject(cred, b)
    \/ \E cred \in RBACCreds, b \in SubjectIds : DeleteSubject(cred, b)

\* the answer-sheet and subject routes, called without a token and with the tokens of
\* an admin, a coordinator, an examiner and an examiner-role user without examiner
SpecSheets == SheetsInit /\ [][SheetsNext]_vars

----------------------------------------------------------------------------
(* Registration and login when users are deactivated *)

\* is_active BOOLEAN DEFAULT true: no route writes the column; the operator of the
\* database sets it to false
Deactivate(username) ==
    /\ \E u \in users : u.username = username /\ u.is_active
    /\ users' = { IF u.username = username THEN [u EXCEPT !.is_active = FALSE] ELSE u :
                    u \in users }
    /\ last' = Response("deactivate", AbsentCred, [username |-> username], 0, NoStr, FALSE,
                        TRUE, AbsentCred, NoChecks)
    /\ UNCHANGED <<now, schools, subjects, examiners, students, answerSheets, assignments,
                   serial, roleCheck, sessions, nextSid, issued, regs, reg, probe, boot, client>>

\* t1; the username of t1 again, as an examiner; the email of t1 again; a short password
InactiveRegBodies ==
    { ScenarioBody,
      RegisterBody("t1", "other@x.com", Secret1, "examiner", NoId, NoId),
      RegisterBody("t9", "t1@x.com", Secret1, "coordinator", NoId, NoId),
      RegisterBody("t5", "t5@x.com", Abcde, "coordinator", NoId, NoId) }

InactiveLoginBodies ==
    { LoginBody("t1", Secret1), LoginBody("t1", Wrong99), LoginBody("admin", Admin123) }

InactiveInit ==
    /\ Startup(TRUE)
    /\ reg = << >>
    /\ boot = Booted
    /\ client = NoClient
    /\ probe = << >>

InactiveNext ==
    \/ \E b \in InactiveRegBodies : serial.examiners <= 4 + MaxNewRows /\ Register(b)
    \/ \E b \in InactiveLoginBodies : Login(b, 0)
    \/ \E u \in {"t1", "admin"} : Deactivate(u)
    \/ Tick

SpecInactive == InactiveInit /\ [][InactiveNext]_vars

----------------------------------------------------------------------------
(* The pure helpers on drawn inputs *)

MaxMonthField == 13
MaxDayField == 32
MaxAllowed == 2

DateYears == {0, 1900, 2000, 2023, 2024, 2025, 9999}

\* strings of other shapes
OtherShapes ==
    { <<>>,
      <<"2", "0", "2", "5", "-", "6", "-", "1">>,
      <<"2", "0", "2", "5", "/", "0", "6", "/", "0", "1">>,
      <<"2", "0", "2", "5", "0", "6", "0", "1">>,
      <<"0", "1", "-", "0", "6", "-", "2", "0", "2", "5">>,
      <<"2", "0", "2", "5", "-", "0", "6", "-", "0", "1", "T">>,
      <<" ", "2", "0", "2", "5", "-", "0", "6", "-", "0", "1">>,
      <<"2", "0", "2", "5", "-", "0", "6", "-", "0", "1", "\n">>,
      <<"2", "0", "2", "5", "-", "0", "6", "-", "0", "x">>,
      <<"a", "b", "c", "d", "-", "e", "f", "-", "g", "h">> }

DateInputs ==
    { DateStr(y, m, d) : y \in DateYears, m \in 0..MaxMonthField, d \in 0..MaxDayField }
        \cup OtherShapes

RECURSIVE SeqsUpTo(_, _)
SeqsUpTo(S, n) ==
    IF n = 0 THEN { <<>> }
    ELSE LET shorter == SeqsUpTo(S, n - 1)
         IN shorter \cup { Append(q, x) : q \in shorter, x \in S }

RoleInputs == Roles \cup {"guest", NoStr}

DateInit ==
    /\ Startup(TRUE)
    /\ reg = << >>
    /\ boot = Booted
    /\ client = NoClient
    /\ probe \in { [fn |-> "isValidDate", arg |-> s, lenient |-> b, out |-> "unset"] :
                  s \in DateInputs, b \in BOOLEAN }

CheckDate ==
    /\ probe.fn = "isValidDate"
    /\ probe.out = "unset"
    /\ UNCHANGED <<now, dbVars, sessions, nextSid, issued, last, regs, reg, boot, client>>
    /\ probe' = [probe EXCEPT !.out = IF isValidDate(probe.arg, probe.lenient) THEN "true" ELSE "false"]

RoleInit ==
    /\ Startup(TRUE)
    /\ reg = << >>
    /\ boot = Booted
    /\ client = NoClient
    /\ probe \in { [fn |-> "authorizeRole", roles |-> a, user |-> u, out |-> "unset", status |-> 0] :
                  a \in SeqsUpTo(Roles, MaxAllowed),
                  u \in {NoUser} \cup { [NoUser EXCEPT !.present = TRUE, !.userId = 1,
                                                        !.username = "t1", !.role = r] :
                                          r \in RoleInputs } }

CheckRole ==
    /\ probe.fn = "authorizeRole"
    /\ probe.out = "unset"
    /\ UNCHANGED <<now, dbVars, sessions, nextSid, issued, last, regs, reg, boot, client>>
    /\ LET r == authorizeRole(probe.roles, probe.user)
       IN probe' = [probe EXCEPT !.out = r.kind, !.status = r.status]

\* isValidDate applied to each drawn string, under either engine
DateNext == CheckDate

SpecDate == DateInit /\ [][DateNext]_vars

\* authorizeRole applied to each drawn allowed list and request identity
RoleNext == CheckRole

SpecRole == RoleInit /\ [][RoleNext]_vars

----------------------------------------------------------------------------
(* Reading the schools *)

\* getAllSchools reading only the rows the sample data brought
getAllSchoolsSampleOnly == { r \in schools : r.school_id < 4 }

\* SELECT * FROM schools ORDER BY school_name
getAllSchools == schools

\* app.get('/api/schools', authenticateToken, ...); probe holds the rows sent
GetSchools(cred) ==
    LET op == "GET /api/schools"
        gate == RunChain(<<Auth>>, 1, cred, NoBody, NoUser)
    IN /\ UNCHANGED <<now, dbVars, sessions, nextSid, issued, regs, reg, boot, client>>
       /\ IF gate.kind # "next"
          THEN /\ Rejected(op, cred, NoBody, gate)
               /\ probe' = [rows |-> {}]
          ELSE /\ Respond(op, cred, NoBody, 200, NoStr, FALSE)
               /\ probe' = [rows |-> getAllSchools]

SchoolsInit == RBACInit

\* a new school, one whose name is taken, one without a location
SchoolCreates ==
    SchoolBodies \cup { SchoolBody(NoId, "Test School", NoStr) }

SchoolsNext ==
    \/ \E cred \in CredsInPlay, b \in SchoolCreates : PostSchool(cred, b)
    \/ \E cred \in CredsInPlay, b \in { SchoolBody(4, "Renamed", "City") } : PutSchool(cred, b)
    \/ \E cred \in CredsInPlay, b \in { [id |-> 4] } : DeleteSchool(cred, b)
    \/ \E cred \in CredsInPlay : GetSchools(cred)
    \/ Tick

\* the schools routes under every credential in play, and the clock
SpecSchools == SchoolsInit /\ [][SchoolsNext]_vars

----------------------------------------------------------------------------
(* The dashboard: AuthProvider and Dashboard of App.js *)

\* client fields: token and user are the React state of AuthProvider, stored is
\* localStorage's token, error the Dashboard's error state, pending the fetch that
\* awaits its response, did the call that returned last with the response it saw
Idle == client.pending.op = NoStr

\* await fetch(...): the request is on the wire
Fetch(op, cred, body) ==
    /\ client' = [client EXCEPT !.pending = [op |-> op, cred |-> cred, body |-> body]]
    /\ last' = Response("fetch", cred, body, 0, NoStr, FALSE, FALSE, AbsentCred, NoChecks)

ClientFrame == UNCHANGED <<now, dbVars, sessions, nextSid, issued, regs, reg, probe, boot>>

\* response.ok
ResponseOk == last.status >= 200 /\ last.status <= 299

\* the call returns: nothing pending, and what it saw
Returned(c, op) ==
    [c EXCEPT !.pending = NoClient.pending,
              !.did = [op |-> op, status |-> last.status, error |-> last.error]]

\* the page loads: useState(localStorage.getItem('token')), user null, and the
\* mount effect calls verifyToken when there is a token
ClientMount ==
    /\ Idle
    /\ ClientFrame
    /\ IF client.stored # AbsentCred
       THEN /\ client' = [client EXCEPT !.token = client.stored, !.user = NoUser,
                                       !.error = NoStr,
                                       !.pending = [op |-> "verifyToken", cred |-> client.stored,
                                                    body |-> NoBody]]
            /\ last' = Response("fetch", client.stored, NoBody, 0, NoStr, FALSE, FALSE,
                                AbsentCred, NoChecks)
       ELSE /\ client' = [client EXCEPT !.token = AbsentCred, !.user = NoUser, !.error = NoStr]
            /\ last' = Response("mount", AbsentCred, NoBody, 0, NoStr, FALSE, FALSE,
                                AbsentCred, NoChecks)

\* login(username, password) up to its fetch
ClientLogin(body) ==
    /\ Idle /\ client.user = NoUser
    /\ ClientFrame
    /\ Fetch("login", AbsentCred, body)

\* logout() up to its fetch, from the Logout button
ClientLogout ==
    /\ Idle /\ client.user # NoUser /\ client.token # AbsentCred
    /\ ClientFrame
    /\ Fetch("logout", client.token, NoBody)

\* fetchData('schools') up to its fetch, with getAuthHeaders()
ClientFetchData ==
    /\ Idle /\ client.user # NoUser
    /\ ClientFrame
    /\ Fetch("fetchData", client.token, NoBody)

\* handleSubmit('schools', data) up to its fetch, with getAuthHeaders()
ClientHandleSubmit(body) ==
    /\ Idle /\ client.user # NoUser
    /\ ClientFrame
    /\ Fetch("handleSubmit", client.token, body)

\* the server handles the request on the wire; the browser sends no cookie
ServerHandles ==
    /\ last.op = "fetch"
    /\ \/ client.pending.op = "verifyToken" /\ GetVerify(client.pending.cred)
       \/ client.pending.op = "login" /\ Login(client.pending.body, 0)
       \/ client.pending.op = "logout" /\ Logout(client.pending.cred, 0)
       \/ client.pending.op = "fetchData" /\ GetSchools(client.pending.cred)
       \/ client.pending.op = "handleSubmit"
          /\ PostSchool(client.pending.cred, client.pending.body)

\* the finally block of logout(): setToken(null), setUser(null), removeItem('token')
LoggedOut(c) == [c EXCEPT !.token = AbsentCred, !.user = NoUser, !.stored = AbsentCred]

\* verifyToken after its fetch: setUser(data.user), or logout() up to its fetch
VerifyTokenReturns ==
    /\ client.pending.op = "verifyToken" /\ last.op # "fetch"
    /\ ClientFrame
    /\ IF ResponseOk
       THEN /\ client' = [Returned(client, "verifyToken") EXCEPT !.user = Claims(client.token)]
            /\ UNCHANGED last
       ELSE /\ client' = [Returned(client, "verifyToken") EXCEPT
                             !.pending = [op |-> "logout", cred |-> client.token,
                                          body |-> NoBody]]
            /\ last' = Response("fetch", client.token, NoBody, 0, NoStr, FALSE, FALSE,
                                AbsentCred, NoChecks)

\* login after its fetch: setToken, setUser and localStorage.setItem when response.ok
LoginReturns ==
    /\ client.pending.op = "login" /\ last.op # "fetch"
    /\ ClientFrame
    /\ UNCHANGED last
    /\ client' = IF ResponseOk
                 THEN [Returned(client, "login") EXCEPT !.token = last.token,
                                                        !.stored = last.token,
                                                        !.user = Claims(last.token)]
                 ELSE [Returned(client, "login") EXCEPT !.error = last.error]

\* logout after its fetch, whatever the response
LogoutReturns ==
    /\ client.pending.op = "logout" /\ last.op # "fetch"
    /\ ClientFrame
    /\ UNCHANGED last
    /\ client' = [LoggedOut(client) EXCEPT !.pending = NoClient.pending]

\* fetchData after its fetch: the rows, or on !response.ok the thrown Error is caught
\* and [] is returned; token and user stay as they are
FetchDataReturns ==
    /\ client.pending.op = "fetchData" /\ last.op # "fetch"
    /\ ClientFrame
    /\ UNCHANGED last
    /\ client' = Returned(client, "fetchData")

\* handleSubmit after its fetch: setError(errorData.error) and return on
\* !response.ok, else loadData()
HandleSubmitReturns ==
    /\ client.pending.op = "handleSubmit" /\ last.op # "fetch"
    /\ ClientFrame
    /\ IF ResponseOk
       THEN /\ client' = [Returned(client, "handleSubmit") EXCEPT
                             !.error = NoStr,
                             !.pending = [op |-> "fetchData", cred |-> client.token,
                                          body |-> NoBody]]
            /\ last' = Response("fetch", client.token, NoBody, 0, NoStr, FALSE, FALSE,
                                AbsentCred, NoChecks)
       ELSE /\ client' = [Returned(client, "handleSubmit") EXCEPT !.error = last.error]
            /\ UNCHANGED last

ClientInit ==
    /\ Startup(TRUE)
    /\ reg = << >>
    /\ boot = Booted
    /\ client = NoClient
    /\ probe = [rows |-> {}]

ClientNext ==
    \/ ClientMount
    \/ \E b \in {LoginBody("admin", Admin123), LoginBody("admin", Secret1)} : ClientLogin(b)
    \/ ClientLogout
    \/ ClientFetchData
    \/ \E b \in SchoolCreates : ClientHandleSubmit(b)
    \/ ServerHandles
    \/ VerifyTokenReturns
    \/ LoginReturns
    \/ LogoutReturns
    \/ FetchDataReturns
    \/ HandleSubmitReturns
    \/ Idle /\ Tick

\* one browser with the dashboard against the server, and the clock
SpecClient == ClientInit /\ [][ClientNext]_vars

----------------------------------------------------------------------------
(* The referenced tables and the assignments together *)

RefsInit == RBACInit

\* the admin's token and the examiner's
RefsCreds == { e.token : e \in { i \in issued : i.token.role \in {"admin", "examiner"} } }

\* assignments for the sample rows and for the rows the routes add: examiner 5,
\* school 4, subject 6
RefsCreates ==
    { AssignmentBody(NoId, 3, 3, D(2025, 6, 1), "Evening", 3),
      AssignmentBody(NoId, 5, 3, D(2025, 6, 1), "Evening", 6),
      AssignmentBody(NoId, 5, 4, D(2025, 6, 1), "Evening", NoId) }
RefsUpdates ==
    { AssignmentBody(1, 5, 1, D(2025, 6, 1), "Evening", 6),
      AssignmentBody(1, 1, 1, D(2025, 6, 1), "Evening", 1) }
RefsIds == { [id |-> id] : id \in {1, 4} }

RefsNext ==
    \/ \E cred \in RefsCreds : PostExaminer(cred, ExaminerBody(NoId, "New Examiner", 1, 1))
    \/ \E cred \in RefsCreds : PutExaminer(cred, ExaminerBody(5, "Renamed", 1, 6))
    \/ \E cred \in RefsCreds, id \in {1, 5} : DeleteExaminer(cred, [id |-> id])
    \/ \E cred \in RefsCreds : PostSchool(cred, SchoolBody(NoId, "Test School", "City"))
    \/ \E cred \in RefsCreds, id \in {1, 4} : DeleteSchool(cred, [id |-> id])
    \/ \E cred \in RefsCreds : PostSubject(cred, SubjectBody(NoId, "History", "HIS001"))
    \/ \E cred \in RefsCreds, id \in {1, 6} : DeleteSubject(cred, [id |-> id])
    \/ \E cred \in RefsCreds, b \in RefsCreates : PostInvigilation(cred, b)
    \/ \E cred \in RefsCreds, b \in RefsUpdates : PutInvigilation(cred, b, TRUE)
    \/ \E cred \in RefsCreds, b \in RefsIds : DeleteInvigilation(cred, b)

\* creates, updates and deletes of examiners, schools, subjects and assignments
SpecRefs == RefsInit /\ [][RefsNext]_vars

----------------------------------------------------------------------------
(* Reading the invigilation schedule *)

\* CREATE VIEW invigilation_schedule: invigilation_assignments ia
\*   JOIN examiners e ON ia.examiner_id = ia.examiner_id
\*   JOIN schools s ON ia.school_id = s.school_id
\*   JOIN subjects sub ON ia.subject_id = sub.subject_id
\* the first condition compares the assignment's column with itself: it is true of
\* every examiner row when the column is not null; sub.subject_name is not among the
\* columns the subjects table carries here
invigilation_schedule ==
    { [assignment_id |-> ia.assignment_id, examiner_name |-> e.examiner_name,
       school_name |-> s.school_name, exam_date |-> ia.exam_date,
       exam_session |-> ia.exam_session, examiner_id |-> ia.examiner_id,
       school_id |-> ia.school_id, subject_id |-> ia.subject_id] :
        <<ia, e, s, sub>> \in
            { t \in assignments \X examiners \X schools \X subjects :
                /\ t[1].examiner_id # NoId
                /\ t[1].school_id = t[3].school_id
                /\ t[1].subject_id = t[4].subject_id } }

\* SELECT * FROM invigilation_schedule ORDER BY exam_date, exam_session
getAllInvigilationAssignments == invigilation_schedule

\* app.get('/api/invigilation', authenticateToken, ...); probe holds the rows sent
GetInvigilation(cred) ==
    LET op == "GET /api/invigilation"
        gate == RunChain(<<Auth>>, 1, cred, NoBody, NoUser)
    IN /\ UNCHANGED <<now, dbVars, sessions, nextSid, issued, regs, reg, boot, client>>
       /\ IF gate.kind # "next"
          THEN /\ Rejected(op, cred, NoBody, gate)
               /\ probe' = [rows |-> {}]
          ELSE /\ Respond(op, cred, NoBody, 200, NoStr, FALSE)
               /\ probe' = [rows |-> getAllInvigilationAssignments]

ScheduleInit == RBACInit

ScheduleNext ==
    \/ \E cred \in RefsCreds \cup {AbsentCred} : GetInvigilation(cred)
    \/ \E cred \in RefsCreds, b \in RefsCreates : PostInvigilation(cred, b)
    \/ \E cred \in RefsCreds, b \in RefsIds : DeleteInvigilation(cred, b)
    \/ \E cred \in RefsCreds : PostExaminer(cred, ExaminerBody(NoId, "New Examiner", 1, 1))
    \/ \E cred \in RefsCreds, id \in {4, 5} : DeleteExaminer(cred, [id |-> id])

\* the schedule read while assignments and examiners come and go
SpecSchedule == ScheduleInit /\ [][ScheduleNext]_vars

----------------------------------------------------------------------------
(* Startup: the app.listen callback, createAllTables, createViews *)

\* const maxRetries = 3
maxRetries == 3

\* setTimeout(resolve, 1000) between two attempts
BackoffMs == 1000

\* what a failed statement reports
ConnectionRefused == "ECONNREFUSED"
UndefinedTable == "42P01"

\* the catch block of createViews after the attempt numbered b.attempt failed,
\* written with > for ===: the third failure is not rethrown
createViewsCatchNeverThrows(b, error) ==
    IF b.attempt > maxRetries
    THEN [b EXCEPT !.pc = "unhandledRejection", !.error = error]
    ELSE [b EXCEPT !.attempt = @ + 1, !.pc = "backoff"]

\* the catch block of createViews after the attempt numbered b.attempt failed:
\* if (attempt === maxRetries) throw error; attempt++; await setTimeout
createViewsCatch(b, error) ==
    IF b.attempt = maxRetries
    THEN [b EXCEPT !.pc = "unhandledRejection", !.error = error]
    ELSE [b EXCEPT !.attempt = @ + 1, !.pc = "backoff"]

\* the process serves requests
Serving == boot.alive

\* the process serves requests and initializeDatabase has returned
Ready == boot.alive /\ boot.pc = "ready"

\* steps of the listen callback touch nothing of the request handlers
BootFrame == UNCHANGED <<sessions, nextSid, issued, regs, reg, probe, client, roleCheck,
                         assignments>>

BootReply(op, error) ==
    Response(op, AbsentCred, NoBody, 0, error, FALSE, FALSE, AbsentCred, NoChecks)

\* await testConnection(): it logs a failed connection and returns
TestConnection(down) ==
    /\ boot.alive /\ boot.pc = "listen"
    /\ boot' = [boot EXCEPT !.pc = "createAllTables"]
    /\ last' = BootReply("testConnection", IF down THEN ConnectionRefused ELSE NoStr)
    /\ BootFrame
    /\ UNCHANGED <<now, users, schools, subjects, examiners, students, answerSheets, serial>>

\* createUsersTable .. createInvigilationAssignmentsTable, in the order of
\* createAllTables: CREATE TABLE IF NOT EXISTS users comes first and REFERENCES
\* examiners and schools, which a database without these relations does not hold
\* yet; an error is rethrown by createAllTables and by initializeDatabase
CreateAllTables(down) ==
    /\ boot.alive /\ boot.pc = "createAllTables"
    /\ LET error == IF down THEN ConnectionRefused
                    ELSE IF ~boot.relations THEN UndefinedTable ELSE NoStr
       IN /\ boot' = IF error # NoStr
                     THEN [boot EXCEPT !.pc = "unhandledRejection", !.error = error]
                     ELSE [boot EXCEPT !.pc = "createViews"]
          /\ last' = BootReply("createAllTables", error)
    /\ BootFrame
    /\ UNCHANGED <<now, users, schools, subjects, examiners, students, answerSheets, serial>>

\* one pass of the while loop of createViews: the three DROP VIEW and the three
\* CREATE VIEW statements, any of which may fail with error; then break, or the catch
CreateViewsAttempt(error) ==
    /\ boot.alive /\ boot.pc = "createViews"
    /\ boot' = IF error = NoStr
               THEN [boot EXCEPT !.pc = "insertSampleData", !.log = Append(@, "ok")]
               ELSE [createViewsCatch(boot, error) EXCEPT !.log = Append(@, error)]
    /\ last' = BootReply("createViews", error)
    /\ BootFrame
    /\ UNCHANGED <<now, users, schools, subjects, examiners, students, answerSheets, serial>>

\* the sleep ends and the loop condition attempt <= maxRetries is tested
CreateViewsBackoff ==
    /\ boot.alive /\ boot.pc = "backoff"
    /\ now' = now + BackoffMs
    /\ boot' = IF boot.attempt <= maxRetries
               THEN [boot EXCEPT !.pc = "createViews"]
               ELSE [boot EXCEPT !.pc = "insertSampleData"]
    /\ last' = BootReply("backoff", NoStr)
    /\ BootFrame
    /\ UNCHANGED <<users, schools, subjects, examiners, students, answerSheets, serial>>

\* insertSampleData: each table is filled when SELECT COUNT(*) finds it empty; the
\* catch logs an error and returns
InsertSampleData(down) ==
    /\ boot.alive /\ boot.pc = "insertSampleData"
    /\ boot' = [boot EXCEPT !.pc = "adminUser"]
    /\ last' = BootReply("insertSampleData", IF down THEN ConnectionRefused ELSE NoStr)
    /\ IF down
       THEN UNCHANGED <<schools, subjects, examiners, students, answerSheets, serial>>
       ELSE /\ schools' = IF schools = {} THEN SampleSchools ELSE schools
            /\ subjects' = IF subjects = {} THEN SampleSubjects ELSE subjects
            /\ examiners' = IF examiners = {} THEN SampleExaminers ELSE examiners
            /\ students' = IF students = {} THEN SampleStudents ELSE students
            /\ answerSheets' = IF answerSheets = {} THEN SampleAnswerSheets ELSE answerSheets
            /\ serial' = [serial EXCEPT
                            !.schools = IF schools = {} THEN @ + 3 ELSE @,
                            !.subjects = IF subjects = {} THEN @ + 5 ELSE @,
                            !.examiners = IF examiners = {} THEN @ + 3 ELSE @]
    /\ BootFrame
    /\ UNCHANGED <<now, users>>

\* getUserByUsername('admin') and, without one, createUser(admin/admin123); an error
\* is rethrown by initializeDatabase
EnsureAdmin(down) ==
    /\ boot.alive /\ boot.pc = "adminUser"
    /\ LET missing == getUserByUsername("admin") = {}
           row == [AdminUser EXCEPT !.user_id = serial.users]
           error == IF down THEN ConnectionRefused
                    ELSE IF missing THEN InsertUserError(row @@ [new_examiner |-> NoId])
                    ELSE NoStr
       IN /\ boot' = IF error # NoStr
                     THEN [boot EXCEPT !.pc = "unhandledRejection", !.error = error]
                     ELSE [boot EXCEPT !.pc = "ready"]
          /\ users' = IF error = NoStr /\ missing THEN users \cup {row} ELSE users
          /\ serial' = IF ~down /\ missing THEN Bump("users") ELSE serial
          /\ last' = BootReply("adminUser", error)
    /\ BootFrame
    /\ UNCHANGED <<now, schools, subjects, examiners, students, answerSheets>>

\* the promise of the async listen callback rejects and nothing handles it: the
\* runtime either ends the process (the default since Node 15) or only warns
UnhandledRejection(ends) ==
    /\ boot.alive /\ boot.pc = "unhandledRejection"
    /\ boot' = [boot EXCEPT !.pc = "rejected", !.alive = ~ends]
    /\ last' = BootReply("unhandledRejection", boot.error)
    /\ BootFrame
    /\ UNCHANGED <<now, users, schools, subjects, examiners, students, answerSheets, serial>>

\* the process as app.listen calls back, over a database that already holds the
\* tables with their rows, holds the tables without rows, or holds no relation
BootStart(relations) ==
    [pc |-> "listen", attempt |-> 1, alive |-> TRUE, error |-> NoStr, log |-> << >>,
     relations |-> relations]

BootInit ==
    /\ now = 0
    /\ roleCheck = TRUE
    /\ sessions = << >> /\ nextSid = 0 /\ issued = {} /\ regs = {} /\ reg = << >>
    /\ probe = << >> /\ client = NoClient
    /\ assignments = {}
    /\ last = BootReply("listen", NoStr)
    /\ \/ /\ boot = BootStart(TRUE)
          /\ users = {AdminUser} /\ schools = SampleSchools /\ subjects = SampleSubjects
          /\ examiners = SampleExaminers /\ students = SampleStudents
          /\ answerSheets = SampleAnswerSheets
          /\ serial = [users |-> 2, schools |-> 4, subjects |-> 6, examiners |-> 4,
                       assignments |-> 1]
       \/ /\ boot \in {BootStart(TRUE), BootStart(FALSE)}
          /\ users = {} /\ schools = {} /\ subjects = {} /\ examiners = {} /\ students = {}
          /\ answerSheets = {}
          /\ serial = [users |-> 1, schools |-> 1, subjects |-> 1, examiners |-> 1,
                       assignments |-> 1]

BootErrors == {ConnectionRefused, UndefinedTable}

BootNext ==
    \/ \E down \in BOOLEAN : TestConnection(down)
    \/ \E down \in BOOLEAN : CreateAllTables(down)
    \/ \E error \in {NoStr} \cup BootErrors : CreateViewsAttempt(error)
    \/ CreateViewsBackoff
    \/ \E down \in BOOLEAN : InsertSampleData(down)
    \/ \E down \in BOOLEAN : EnsureAdmin(down)
    \/ \E ends \in BOOLEAN : UnhandledRejection(ends)
    \/ Ready /\ \E b \in {LoginBody("admin", Admin123), LoginBody("admin", Secret1)} : Login(b, 0)
    \/ Serving /\ \E cred \in CredsInPlay : GetVerify(cred)

\* the server from the moment it listens, the database up or down at each step
SpecBoot == BootInit /\ [][BootNext]_vars

----------------------------------------------------------------------------
(* C8, C10: the pure helpers *)

\* C8: with verified claims on the request, authorizeRole(allowedRoles) passes the
\* request on exactly when the claims' role is one of allowedRoles, and otherwise
\* answers 403; admin gets no special treatment.
C8_RoleMembershipOnly ==
    (probe.fn = "authorizeRole" /\ probe.out # "unset" /\ probe.user.present) =>
        /\ (probe.out = "next") <=> (\E i \in DOMAIN probe.roles : probe.roles[i] = probe.user.role)
        /\ (probe.out # "next") => (probe.out = "answer" /\ probe.status = 403)

C8_Witness ==
    /\ probe.fn = "authorizeRole"
    /\ probe.user.present /\ probe.user.role = "admin"
    /\ probe.roles = <<"coordinator", "examiner">>
    /\ probe.out = "answer" /\ probe.status = 403

\* the claim's calendar: a string YYYY-MM-DD whose month is 01..12 and whose day is
\* 01..the length of that month in that year
RealCalendarDate(s) ==
    /\ Len(s) = 10
    /\ \A i \in {1, 2, 3, 4, 6, 7, 9, 10} : IsDigit(s[i])
    /\ s[5] = "-" /\ s[8] = "-"
    /\ LET y == Num4(s, 1)
           m == Num2(s, 6)
           d == Num2(s, 9)
       IN /\ m \in 1..12
          /\ d >= 1
          /\ d <= (IF m = 2 THEN (IF (y % 4 = 0 /\ y % 100 # 0) \/ y % 400 = 0 THEN 29 ELSE 28)
                   ELSE IF m \in {4, 6, 9, 11} THEN 30 ELSE 31)

\* C10: isValidDate(s) is true exactly when s has the form YYYY-MM-DD and names a
\* real calendar date.
C10_IsValidDateExact ==
    (probe.fn = "isValidDate" /\ probe.out # "unset") =>
        ((probe.out = "true") <=> RealCalendarDate(probe.arg))

C10_Witness ==
    /\ probe.fn = "isValidDate"
    /\ probe.lenient
    /\ probe.arg = DateStr(2023, 2, 29)
    /\ probe.out = "false"

----------------------------------------------------------------------------
(* C4 - C7: the gateway, expiry, logout and the session records *)

\* the routes behind authenticateToken that the specification exercises
ProtectedOps == {"verify", "logout"}

\* C4: a token is accepted by the gateway only while less than 24 hours have passed
\* since the login that issued it, and from 24 hours on every protected request that
\* presents it is rejected before its handler.
C4_TokenLivesLessThan24h ==
    last.op \in ProtectedOps =>
        \A e \in issued :
            e.token = last.cred =>
                /\ last.ran => now - e.at < 24 * 60 * 60 * 1000
                /\ now - e.at >= 24 * 60 * 60 * 1000 => (~last.ran /\ last.status \in {401, 403})

C4_Witness ==
    /\ last.op = "verify"
    /\ ~last.ran
    /\ \E e \in issued : e.token = last.cred /\ now - e.at = 24 * 60 * 60 * 1000

\* C5 as claimed: the gateway answers 401 both when no bearer token is present and
\* when the token fails verification, and in both cases the handler is not run.
C5_GatewayAnswers401 ==
    (last.op \in ProtectedOps
        /\ (last.cred.form # "jwt" \/ last.cred.sig # JWT_SECRET
              \/ (now \div 1000) >= last.cred.exp)) =>
        (last.status = 401 /\ ~last.ran)

\* C6: logout does not invalidate a token: a token of a logged-out login that has not
\* reached its expiry is still accepted on a protected route, and in every state the
\* gateway's decision on every credential is fixed by the credential and the clock,
\* whatever the session store holds.
C6_LogoutKeepsTokenValid ==
    /\ (last.op \in ProtectedOps
          /\ (\E e \in issued : e.token = last.cred /\ e.out)
          /\ (now \div 1000) < last.cred.exp) => last.ran
    /\ \A cred \in CredsInPlay :
          (authenticateToken(cred).kind = "next") <=>
              (cred.form = "jwt" /\ cred.sig = JWT_SECRET /\ (now \div 1000) < cred.exp)

C6_Witness ==
    /\ last.op = "verify"
    /\ last.ran
    /\ \E e \in issued : e.token = last.cred /\ e.out /\ e.sid \notin DOMAIN sessions
    /\ \A e \in issued : e.token = last.cred => e.out

\* C7 as claimed: the Session Record of a login exists until a logout by the holder
\* of that login's token succeeds, and after that logout it no longer exists, with or
\* without the session cookie on the logout request.
C7_SessionRecordUntilLogout ==
    \A e \in issued :
        /\ ~e.out => e.sid \in DOMAIN sessions
        /\ e.out => e.sid \notin DOMAIN sessions

----------------------------------------------------------------------------
(* C2, C3: registration *)

\* C2 as claimed: of two concurrent registrations with the same username, whatever the
\* order of their queries, exactly one is answered 201 and the other gets the 400
\* duplicate response, and one user row with that username exists afterwards.
C2_ExactlyOneRegistrationWins ==
    (\A h \in DOMAIN reg : reg[h].pc = "done") =>
        /\ \E h1, h2 \in DOMAIN reg :
              /\ h1 # h2
              /\ reg[h1].status = 201
              /\ reg[h2].status = 400
        /\ Cardinality({ u \in users : u.username = "t1" }) = 1

\* C3: after a registration answered 201, a login with the same username and password
\* is answered 200 with a token that verifies and whose role claim is the role given
\* at registration, or examiner when none was given.
C3_LoginAfterRegistration ==
    \A r \in regs :
        (last.op = "login" /\ last.body.username = r.username
            /\ last.body.password = r.password) =>
            /\ last.status = 200
            /\ JwtVerifyError(last.token, JWT_SECRET, now) = NoStr
            /\ Claims(last.token).role = (IF r.role = NoStr THEN "examiner" ELSE r.role)

C3_Witness ==
    /\ last.op = "login"
    /\ last.status = 200
    /\ \E r \in regs : r.username = last.body.username /\ r.role = NoStr
    /\ Claims(last.token).role = "examiner"

----------------------------------------------------------------------------
(* C1, C9: the write routes *)

WriteOps ==
    { "POST /api/schools", "PUT /api/schools/:id", "DELETE /api/schools/:id",
      "POST /api/examiners", "PUT /api/examiners/:id", "DELETE /api/examiners/:id",
      "POST /api/students", "PUT /api/students/:rollNumber", "DELETE /api/students/:rollNumber",
      "POST /api/bulk/students",
      "POST /api/invigilation", "PUT /api/invigilation/:id", "DELETE /api/invigilation/:id" }

Tables == <<schools, examiners, students, assignments, users, subjects, answerSheets>>

\* C1 as claimed: a write on schools, examiners, students or invigilation assignments
\* (create, update, delete, bulk insert) that carries a valid token whose role is
\* examiner is answered 403 and leaves every table as it was.
C1_ExaminerWritesDenied ==
    [][ (last'.op \in WriteOps
           /\ last' # last
           /\ last'.cred.role = "examiner"
           /\ JwtVerifyError(last'.cred, JWT_SECRET, now) = NoStr)
        => (last'.status = 403 /\ Tables' = Tables) ]_vars

\* C9: on an update of an invigilation assignment that reaches the handler with its
\* five fields present, the checks run in the order exam date, examiner, school,
\* subject; the first that fails gives the 400 error, the checks after it are not
\* evaluated, and the assignments are left as they were.
C9_FirstFailingCheckDecides ==
    [][ (last'.op = "PUT /api/invigilation/:id" /\ last'.ran /\ last' # last) =>
          LET b == last'.body
              dateOk == RealCalendarDate(b.examDate)
              examinerOk == \E r \in examiners : r.examiner_id = b.examinerId
              schoolOk == \E r \in schools : r.school_id = b.schoolId
              subjectOk == \E r \in subjects : r.subject_id = b.subjectId
              Fails(error, evaluated) ==
                  /\ last'.status = 400
                  /\ last'.error = error
                  /\ last'.checks = evaluated
                  /\ assignments' = assignments
          IN IF ~dateOk THEN Fails(InvalidDateError, <<"examDate">>)
             ELSE IF ~examinerOk THEN Fails(UnknownExaminerError, <<"examDate", "examiner">>)
             ELSE IF ~schoolOk
                  THEN Fails(UnknownSchoolError, <<"examDate", "examiner", "school">>)
             ELSE IF ~subjectOk
                  THEN Fails(UnknownSubjectError, <<"examDate", "examiner", "school", "subject">>)
             ELSE last'.status \in {200, 404} ]_vars

C9_Witness ==
    /\ last.op = "PUT /api/invigilation/:id"
    /\ last.ran
    /\ last.status = 400
    /\ last.error = UnknownExaminerError
    /\ last.checks = <<"examDate", "examiner">>
    /\ ~SchoolExists(last.body.schoolId)
    /\ ~SubjectExists(last.body.subjectId)

----------------------------------------------------------------------------
(* C11, C12: the references and the writers of invigilation assignments *)

InvigilationWrites == {"POST /api/invigilation", "PUT /api/invigilation/:id"}

\* C11 as claimed: every assignment row that a create or an update of an invigilation
\* assignment stores has an examiner, a school and a subject reference, none of them
\* null, each naming a row that exists when the row is written.
C11_StoredReferencesResolve ==
    [][ (last'.op \in InvigilationWrites /\ last' # last) =>
          \A a \in assignments' \ assignments :
              /\ a.examiner_id # NoId /\ \E r \in examiners' : r.examiner_id = a.examiner_id
              /\ a.school_id # NoId /\ \E r \in schools' : r.school_id = a.school_id
              /\ a.subject_id # NoId /\ \E r \in subjects' : r.subject_id = a.subject_id ]_vars

InvigilationOps == InvigilationWrites \cup {"DELETE /api/invigilation/:id"}

\* C12: the invigilation assignments change only in a step of a create, update or
\* delete request on them that carried a token the server issued, not yet expired,
\* whose role is admin or coordinator; every other request leaves the table as it was.
C12_OnlyAdminOrCoordinatorWrites ==
    [][ assignments' # assignments =>
          /\ last'.op \in InvigilationOps
          /\ \E e \in issued : e.token = last'.cred
          /\ last'.cred.sig = JWT_SECRET
          /\ (now \div 1000) < last'.cred.exp
          /\ last'.cred.role \in {"admin", "coordinator"} ]_vars

C12_Witness ==
    /\ last.op = "DELETE /api/invigilation/:id"
    /\ last.status = 200
    /\ last.cred.role = "coordinator"
    /\ now > 0
    /\ ~\E a \in assignments : a.assignment_id = last.body.id

----------------------------------------------------------------------------
(* C13: the answer sheets an identity reads *)

\* C13: a GET of the answer sheets with a valid token answers, for the role examiner,
\* only sheets whose examiner is the examiner of the token's claims (all of those,
\* when the claims name an examiner), and for admin and coordinator every sheet.
C13_ExaminerReadsOwnSheets ==
    (last.op = "GET /api/answer-sheets" /\ last.ran) =>
        IF last.cred.role = "examiner"
        THEN /\ \A a \in probe.rows : a.examiner_id = last.cred.examinerId
             /\ last.status = 200 =>
                  probe.rows = { a \in answerSheets : a.examiner_id = last.cred.examinerId }
        ELSE last.status = 200 /\ probe.rows = answerSheets

C13_Witness ==
    /\ last.op = "GET /api/answer-sheets"
    /\ last.status = 200
    /\ last.cred.role = "examiner"
    /\ probe.rows # {}
    /\ probe.rows # answerSheets

----------------------------------------------------------------------------
(* C14 - C16: inactive users and the uniqueness of identities *)

\* C14: a login that names a user whose active flag is false is answered 401 whatever
\* the password, issues no token, writes no session record and leaves every user row,
\* last-login included, as it was.
C14_InactiveNeverAuthenticates ==
    [][ (last'.op = "login"
           /\ \E u \in users : u.username = last'.body.username /\ ~u.is_active)
        => /\ last'.status = 401
           /\ last'.token = AbsentCred
           /\ issued' = issued
           /\ sessions' = sessions
           /\ users' = users ]_vars

C14_Witness ==
    /\ last.op = "login"
    /\ last.status = 401
    /\ \E u \in users :
          /\ u.username = last.body.username
          /\ ~u.is_active
          /\ BcryptCompare(last.body.password, u.password_hash)
          /\ u.last_login # NoTime
          /\ u.last_login < now

\* C15: after any registrations, in whatever order and whatever users were deactivated
\* meanwhile, no two user rows, active or not, share a username, and no two an email.
C15_UsernameAndEmailUnique ==
    \A u1, u2 \in users :
        u1 # u2 => (u1.username # u2.username /\ u1.email # u2.email)

C15_Witness ==
    /\ last.op = "register"
    /\ last.status # 201
    /\ Cardinality(users) >= 2
    /\ \E u \in users :
          /\ ~u.is_active
          /\ (u.username = last.body.username \/ u.email = last.body.email)

\* C16 as claimed: a registration whose username or email is that of a user row,
\* active or not, or whose password has fewer than 6 characters, is answered 400 and
\* adds no user row.
C16_DuplicateOrShortIs400 ==
    [][ (last'.op = "register"
           /\ last' # last
           /\ \/ \E u \in users : u.username = last'.body.username
              \/ \E u \in users : u.email = last'.body.email
              \/ (last'.body.password # << >> /\ Len(last'.body.password) < 6))
        => (last'.status = 400 /\ users' = users) ]_vars

----------------------------------------------------------------------------
(* C17, C18: the role and the last login of a user *)

\* C17 as claimed: the role of every user row and the role claim of every issued token
\* is admin, coordinator or examiner, and a registration that names another role is
\* not answered 201.
C17_RoleAlwaysOneOfThree ==
    /\ \A u \in users : u.role \in Roles
    /\ \A e \in issued : e.token.role \in Roles
    /\ (last.op = "register" /\ last.body.role \notin (Roles \cup {NoStr})) => last.status # 201

\* C18: every login answered 200 sets the last login of its user to the time of the
\* login, and the last login of a user changes in no other step: not in a login that
\* fails, not in any other request; a new user row has none.
C18_LastLoginOnlyBySuccessfulLogin ==
    [][ /\ (last'.op = "login" /\ last'.status = 200) =>
              \E v \in users' : v.username = last'.body.username /\ v.last_login = now
        /\ \A u \in users, v \in users' :
              (u.user_id = v.user_id /\ u.last_login # v.last_login) =>
                  (last'.op = "login" /\ last'.status = 200
                     /\ last'.body.username = u.username)
        /\ \A v \in users' :
              (~\E u \in users : u.user_id = v.user_id) => v.last_login = NoTime ]_vars

C18_Witness ==
    /\ last.op = "login"
    /\ last.status = 200
    /\ now > 0
    /\ \E u \in users :
          /\ u.username = last.body.username
          /\ u.last_login = now
          /\ \E e \in issued : e.token.userId = u.user_id /\ e.at < now

----------------------------------------------------------------------------
(* C19, C20: duplicate keys and unknown ids *)

\* C19 as claimed: a create request that reaches its INSERT with a school name, subject
\* code, student roll number, answer book id, username or email that a row already
\* holds is answered 400 and leaves every table as it was.
C19_UniqueViolationIs400 ==
    [][ (last'.ran /\ last' # last
           /\ \/ /\ last'.op = "POST /api/schools"
                 /\ \E r \in schools : r.school_name = last'.body.school_name
              \/ /\ last'.op = "POST /api/subjects"
                 /\ \E r \in subjects : r.subject_code = last'.body.subject_code
              \/ /\ last'.op = "POST /api/students"
                 /\ \E r \in students : r.student_roll_number = last'.body.studentRollNumber
              \/ /\ last'.op = "POST /api/answer-sheets"
                 /\ \E r \in answerSheets : r.answer_book_id = last'.body.answerBookId
              \/ /\ last'.op = "register"
                 /\ \E u \in users : u.username = last'.body.username
                                        \/ u.email = last'.body.email)
        => (last'.status = 400 /\ Tables' = Tables) ]_vars

\* the update or delete request in last' names a row that is not in the table
TargetsUnknownId ==
    \/ /\ last'.op \in {"PUT /api/schools/:id", "DELETE /api/schools/:id"}
       /\ ~\E r \in schools : r.school_id = last'.body.id
    \/ /\ last'.op \in {"PUT /api/subjects/:id", "DELETE /api/subjects/:id"}
       /\ ~\E r \in subjects : r.subject_id = last'.body.id
    \/ /\ last'.op \in {"PUT /api/examiners/:id", "DELETE /api/examiners/:id"}
       /\ ~\E r \in examiners : r.examiner_id = last'.body.id
    \/ /\ last'.op \in {"PUT /api/students/:rollNumber", "DELETE /api/students/:rollNumber"}
       /\ ~\E r \in students : r.student_roll_number = last'.body.rollNumber
    \/ /\ last'.op \in {"PUT /api/answer-sheets/:answerBookId",
                        "DELETE /api/answer-sheets/:answerBookId"}
       /\ ~\E r \in answerSheets : r.answer_book_id = last'.body.answerBookId
    \/ /\ last'.op \in {"PUT /api/invigilation/:id", "DELETE /api/invigilation/:id"}
       /\ ~\E r \in assignments : r.assignment_id = last'.body.id
       /\ last'.status # 400

\* C20 as claimed: an update or a delete with a valid admin or coordinator token that
\* names a school, subject, examiner, student, answer sheet or invigilation assignment
\* that does not exist is answered 404 and changes no row.
C20_UnknownIdIs404 ==
    [][ (last' # last
           /\ last'.cred.role \in {"admin", "coordinator"}
           /\ JwtVerifyError(last'.cred, JWT_SECRET, now) = NoStr
           /\ TargetsUnknownId)
        => (last'.status = 404 /\ Tables' = Tables) ]_vars

----------------------------------------------------------------------------
(* C21, C22: startup *)

\* C21: createViews makes at most 3 attempts; it stops at the first attempt that
\* succeeds, starts a further attempt only after a failed one while fewer than 3 have
\* been made, and after the third failed attempt rethrows that attempt's error
\* without a fourth attempt.
C21_CreateViewsAtMostThreeAttempts ==
    LET n == Len(boot.log)
    IN /\ n <= 3
       /\ \A i \in 1..(n - 1) : boot.log[i] # "ok"
       /\ boot.pc \in {"createViews", "backoff"} =>
              (n < 3 /\ \A i \in 1..n : boot.log[i] # "ok")
       /\ (n = 3 /\ boot.log[3] # "ok") =>
              (boot.pc \in {"unhandledRejection", "rejected"} /\ boot.error = boot.log[3])
       /\ boot.pc \in {"insertSampleData", "adminUser", "ready"} =>
              (n >= 1 /\ boot.log[n] = "ok")

\* three attempts failed, the first and the third differently, and the third error
\* left createViews
C21_Witness ==
    /\ Len(boot.log) = 3
    /\ boot.log[1] = ConnectionRefused
    /\ boot.log[3] = UndefinedTable
    /\ boot.pc = "rejected"
    /\ boot.error = UndefinedTable

\* C22: no error crashes the process: every failure raised while handling a request
\* or during startup initialisation, view creation failing on all 3 attempts included,
\* is caught, and the server keeps running and answering requests.
C22_NoErrorCrashesTheProcess ==
    /\ boot.alive
    /\ boot.pc \notin {"unhandledRejection", "rejected"}

----------------------------------------------------------------------------
(* C23: a created school is listed *)

\* C23: with a token from a login as coordinator or admin, POST /schools with a
\* school name not yet stored and a location answers 201 and stores the school; a
\* stored school stays stored until a delete of it succeeds, and every GET /schools
\* that answers 200 lists every stored school.
C23_CreatedSchoolIsListed ==
    [][ /\ ( /\ last'.op = "POST /api/schools"
             /\ \E e \in issued : e.token = last'.cred
             /\ (now \div 1000) < last'.cred.exp
             /\ last'.cred.role \in {"admin", "coordinator"}
             /\ last'.body.school_name # NoStr /\ last'.body.location # NoStr
             /\ ~\E r \in schools : r.school_name = last'.body.school_name )
          => /\ last'.status = 201
             /\ \E r \in schools' \ schools :
                   r.school_name = last'.body.school_name /\ r.location = last'.body.location
        /\ \A r \in schools :
             \/ r \in schools'
             \/ /\ last'.op = "DELETE /api/schools/:id" /\ last'.status = 200
                /\ last'.body.id = r.school_id
        /\ (last'.op = "GET /api/schools" /\ last'.status = 200)
          => \A r \in schools' : r \in probe'.rows ]_vars

\* the coordinator created Test School and a later GET with that token lists it
C23_Witness ==
    /\ last.op = "GET /api/schools"
    /\ last.status = 200
    /\ last.cred.role = "coordinator"
    /\ \E r \in probe.rows : r.school_name = "Test School" /\ r.school_id = 4

----------------------------------------------------------------------------
(* C24: the dashboard and a rejected token *)

TokenRejections == {"Access token required", "Invalid or expired token"}

\* C24: once the server has rejected the client's token as expired or invalid, on
\* the mount-time verify call or on a later data fetch or submit, and the call has
\* returned, the dashboard has cleared the stored token and the user, so that the
\* login page is shown.
C24_RejectedTokenForcesLogin ==
    ( /\ Idle
      /\ client.did.op \in {"verifyToken", "fetchData", "handleSubmit"}
      /\ client.did.error \in TokenRejections )
    => ( client.token = AbsentCred /\ client.stored = AbsentCred /\ client.user = NoUser )

----------------------------------------------------------------------------
(* C25: updating and deleting a school *)

\* C25: PUT /api/schools/:id and DELETE /api/schools/:id, requested with a valid
\* unexpired token whose role is admin or coordinator for an existing school, pass
\* the role check, run the handler and answer 200 with the school updated or deleted.
C25_SchoolUpdateAndDeleteSucceed ==
    [][ ( /\ last'.op \in {"PUT /api/schools/:id", "DELETE /api/schools/:id"}
          /\ \E e \in issued : e.token = last'.cred
          /\ (now \div 1000) < last'.cred.exp
          /\ last'.cred.role \in {"admin", "coordinator"}
          /\ \E r \in schools : r.school_id = last'.body.id
          /\ ~SchoolReferenced(last'.body.id) )
        => /\ last'.ran
           /\ last'.status = 200
           /\ last'.op = "DELETE /api/schools/:id" =>
                 ~\E r \in schools' : r.school_id = last'.body.id
           /\ last'.op = "PUT /api/schools/:id" =>
                 \E r \in schools' : /\ r.school_id = last'.body.id
                                     /\ r.school_name = last'.body.school_name ]_vars

----------------------------------------------------------------------------
(* C26: where tokens come from *)

\* C26: a token is issued only by a login whose username resolved to an active user
\* and whose password matched that user's stored hash, and the claims of the token
\* (user id, username, role, examiner reference, school reference) equal the fields
\* of that user record at the time of the login.
C26_TokenOnlyFromMatchingLogin ==
    [][ /\ last'.token # AbsentCred => \E e \in issued' : e.token = last'.token
        /\ \A e \in issued' \ issued :
             /\ last'.op = "login" /\ last'.status = 200 /\ last'.token = e.token
             /\ \E u \in users :
                   /\ u.username = last'.body.username
                   /\ u.is_active
                   /\ u.password_hash = BcryptHash(last'.body.password)
                   /\ e.token.userId = u.user_id
                   /\ e.token.username = u.username
                   /\ e.token.role = u.role
                   /\ e.token.examinerId = u.examiner_id
                   /\ e.token.schoolId = u.school_id ]_vars

\* t1, registered as examiner with the examiner row made for it, logged in
C26_Witness ==
    /\ last.op = "login"
    /\ last.status = 200
    /\ last.token.username = "t1"
    /\ last.token.role = "examiner"
    /\ last.token.examinerId # NoId
    /\ \E e \in issued : e.token = last.token

----------------------------------------------------------------------------
(* C27, C28: what a registration leaves in the store *)

\* C27: a registration that is not answered 201 leaves the store unchanged: it adds
\* no user row and no examiner row, also when the request has role examiner without
\* an examiner reference and the user insert fails after the examiner row was
\* inserted.
C27_FailedRegistrationChangesNothing ==
    [][ (last'.op = "register" /\ last'.status # 201)
        => (users' = users /\ examiners' = examiners) ]_vars

\* C28: every user created by registration whose stored role is examiner has an
\* examiner reference that is not null and resolves to an examiner row, also when the
\* request omitted the role and the role defaulted to examiner.
C28_ExaminerUserHasExaminerRow ==
    \A u \in users :
        u.role = "examiner" => (u.examiner_id # NoId /\ ExaminerExists(u.examiner_id))

----------------------------------------------------------------------------
(* C29: the references of the assignments *)

DeletesOfReferenced ==
    [examiners |-> "DELETE /api/examiners/:id", schools |-> "DELETE /api/schools/:id",
     subjects |-> "DELETE /api/subjects/:id"]

\* C29: after any sequence of creates, updates and deletes of examiners, schools,
\* subjects and assignments, every examiner, school and subject reference of a stored
\* assignment that is not null resolves to a row; a delete of an examiner, school or
\* subject that an assignment references is not answered 200 and removes nothing.
C29_AssignmentReferencesResolve ==
    /\ [](\A a \in assignments :
            /\ a.examiner_id # NoId => \E r \in examiners : r.examiner_id = a.examiner_id
            /\ a.school_id # NoId => \E r \in schools : r.school_id = a.school_id
            /\ a.subject_id # NoId => \E r \in subjects : r.subject_id = a.subject_id)
    /\ [][ /\ ( /\ last'.op = DeletesOfReferenced.examiners
                /\ \E a \in assignments : a.examiner_id = last'.body.id )
             => (last'.status # 200 /\ examiners' = examiners)
           /\ ( /\ last'.op = DeletesOfReferenced.schools
                /\ \E a \in assignments : a.school_id = last'.body.id )
             => (last'.status # 200 /\ schools' = schools)
           /\ ( /\ last'.op = DeletesOfReferenced.subjects
                /\ \E a \in assignments : a.subject_id = last'.body.id )
             => (last'.status # 200 /\ subjects' = subjects) ]_vars

\* the admin added examiner 5, an assignment came to name it, and the delete of
\* examiner 5 was refused
C29_Witness ==
    /\ last.op = "DELETE /api/examiners/:id"
    /\ last.body.id = 5
    /\ last.cred.role = "admin"
    /\ last.status = 500
    /\ \E a \in assignments : a.examiner_id = 5
    /\ \E r \in examiners : r.examiner_id = 5

----------------------------------------------------------------------------
(* C30: the invigilation schedule *)

\* C30: GET /invigilation answers exactly one row for each stored assignment whose
\* three references resolve, no row for another assignment, and the row carries the
\* name of the examiner the assignment references, however many examiner rows the
\* store holds.
C30_OneScheduleRowPerAssignment ==
    (last.op = "GET /api/invigilation" /\ last.status = 200) =>
        LET resolved == { a \in assignments :
                            /\ \E r \in examiners : r.examiner_id = a.examiner_id
                            /\ \E r \in schools : r.school_id = a.school_id
                            /\ \E r \in subjects : r.subject_id = a.subject_id }
        IN /\ \A a \in resolved :
                /\ Cardinality({ row \in probe.rows : row.assignment_id = a.assignment_id }) = 1
                /\ \A row \in probe.rows :
                      row.assignment_id = a.assignment_id =>
                          \E r \in examiners : /\ r.examiner_id = a.examiner_id
                                               /\ r.examiner_name = row.examiner_name
           /\ \A row \in probe.rows : \E a \in resolved : a.assignment_id = row.assignment_id

====
